---------------------------- MODULE Spec2Model ----------------------------
(***************************************************************************)
(* A model of the raytracer-rs core: scalar/vector arithmetic, rays,      *)
(* shapes and their intersection tests, lights, the recursive shading of  *)
(* Scene::color_for / Scene::color_at, the sequential and the column-     *)
(* parallel image synthesis, and TriangleMesh::transform.                 *)
(*                                                                         *)
(* Numbers.  An f64 is modelled as a fixed-point number: the integer n    *)
(* stands for n / Q.  Products and quotients are rounded toward zero to   *)
(* the grid, as f64 rounds to its own grid.  The source's thresholds      *)
(* 1e-6 and 1e-10 lie below the grid step, so "x < 1e-6" and "x < 1e-10"  *)
(* are both "x < one grid step" for every grid value x; its offsets of    *)
(* 1e-10 are one grid step, the least positive scalar.  INFINITY is a     *)
(* value above every finite scalar of the model.  Option<T> is a sequence *)
(* of length 0 (None) or 1 (Some).                                         *)
(***************************************************************************)
EXTENDS Integers, Sequences, FiniteSets, TLC

(***************************************************************************)
(* Scalars (f64)                                                           *)
(***************************************************************************)
Q == 100

F(n) == n * Q

Abs(a) == IF a < 0 THEN -a ELSE a

Max(a, b) == IF a > b THEN a ELSE b

Min(a, b) == IF a < b THEN a ELSE b

\* integer quotient rounded toward zero
TDiv(n, d) ==
    LET quot[x \in Int \X Int] ==
            IF (x[1] >= 0) = (x[2] > 0) THEN Abs(x[1]) \div Abs(x[2])
            ELSE -(Abs(x[1]) \div Abs(x[2]))
    IN  quot[<<n, d>>]

Mul(a, b) == TDiv(a * b, Q)

Div(a, b) == TDiv(a * Q, b)

\* the greatest r in lo..hi with r * r <= n, by bisection
IsqrtIn(n, lo, hi) ==
    LET in[r \in Nat \X Nat \X Nat] ==
            IF r[2] >= r[3] THEN r[2]
            ELSE LET mid == (r[2] + r[3] + 1) \div 2
                 IN  IF mid * mid <= r[1] THEN in[<<r[1], mid, r[3]>>]
                     ELSE in[<<r[1], r[2], mid - 1>>]
    IN  in[<<n, lo, hi>>]

\* f64::sqrt on the grid, for a >= 0
Sqrt(a) == IsqrtIn(a * Q, 0, 46340)

PI == 314

INFINITY == 2147483647

None == <<>>

Some(x) == <<x>>

(***************************************************************************)
(* Vectors and points (math/vector.rs, math/point.rs)                      *)
(***************************************************************************)
V3(x, y, z) == <<F(x), F(y), F(z)>>

VAdd(a, b) == <<a[1] + b[1], a[2] + b[2], a[3] + b[3]>>

VSub(a, b) == <<a[1] - b[1], a[2] - b[2], a[3] - b[3]>>

VNeg(a) == <<-a[1], -a[2], -a[3]>>

VScale(a, k) == <<Mul(a[1], k), Mul(a[2], k), Mul(a[3], k)>>

VDivS(a, k) == <<Div(a[1], k), Div(a[2], k), Div(a[3], k)>>

Dot(a, b) == Mul(a[1], b[1]) + Mul(a[2], b[2]) + Mul(a[3], b[3])

Cross(b, c) ==
    << Mul(b[2], c[3]) - Mul(b[3], c[2]),
       Mul(b[3], c[1]) - Mul(b[1], c[3]),
       Mul(b[1], c[2]) - Mul(b[2], c[1]) >>

Norm(a) == Mul(a[1], a[1]) + Mul(a[2], a[2]) + Mul(a[3], a[3])

Magnitude(a) == Sqrt(Norm(a))

Normalize(a) == VDivS(a, Magnitude(a))

PointDist(a, b) == Sqrt(Norm(VSub(a, b)))

VJ == V3(0, 1, 0)

VK == V3(0, 0, 1)

(***************************************************************************)
(* Colours (color.rs)                                                      *)
(***************************************************************************)
Color(r, g, b) == [r |-> r, g |-> g, b |-> b, a |-> Q]

BLACK == Color(0, 0, 0)

WHITE == Color(Q, Q, Q)

CAdd(c, d) == [r |-> c.r + d.r, g |-> c.g + d.g, b |-> c.b + d.b, a |-> c.a]

CMul(c, d) ==
    [r |-> Mul(c.r, d.r), g |-> Mul(c.g, d.g), b |-> Mul(c.b, d.b), a |-> c.a]

CScale(c, k) == [r |-> Mul(c.r, k), g |-> Mul(c.g, k), b |-> Mul(c.b, k), a |-> c.a]

\* (x * 255.0).clamp(0.0, 255.0) as u8
Channel(x) == TDiv(Min(Max(Mul(x, F(255)), 0), F(255)), Q)

ToRgba(c) == <<Channel(c.r), Channel(c.g), Channel(c.b), Channel(c.a)>>

(***************************************************************************)
(* Rays (ray.rs)                                                           *)
(***************************************************************************)
WithGeneration(origin, direction, generation) ==
    [origin |-> origin, direction |-> direction, generation |-> generation]

\* a faulty variant: a new ray counts as one that has bounced once
NewRayBounced(origin, direction) == WithGeneration(origin, direction, 1)

NewRay(origin, direction) == WithGeneration(origin, direction, 0)

PointAt(ray, distance) == VAdd(VScale(ray.direction, distance), ray.origin)

\* a faulty variant: the child ray keeps its parent's generation
SameGeneration(ray) == ray.generation

NextGeneration(ray) == ray.generation + 1

Reflect(ray, normal, intersection, offset) ==
    WithGeneration(
        VAdd(intersection, VScale(normal, offset)),
        Normalize(VSub(ray.direction,
                       VScale(normal, Mul(F(2), Dot(ray.direction, normal))))),
        NextGeneration(ray))

\* Ray::refract given d0 = direction . normal
RefractAt(ray, normal, intersection, offset, refractive_index, d0) ==
    LET enter == d0 < 0
        i_dot_n == IF enter THEN -d0 ELSE d0
        n     == IF enter THEN normal ELSE VNeg(normal)
        eta_i == IF enter THEN Q ELSE refractive_index
        eta_t == IF enter THEN refractive_index ELSE Q
        eta   == Div(eta_i, eta_t)
        k     == Q - Mul(Mul(eta, eta), Q - Mul(i_dot_n, i_dot_n))
    IN  IF k < 0 THEN None
        ELSE Some(WithGeneration(
                 VAdd(intersection, VScale(n, -offset)),
                 VSub(VScale(VAdd(ray.direction, VScale(n, i_dot_n)), eta),
                      VScale(n, Sqrt(k))),
                 NextGeneration(ray)))

Refract(ray, normal, intersection, offset, refractive_index) ==
    RefractAt(ray, normal, intersection, offset, refractive_index,
              Dot(ray.direction, normal))

(***************************************************************************)
(* Materials and textures (material/mod.rs, material/texture.rs)           *)
(***************************************************************************)
SurfaceDiffuse == [kind |-> "Diffuse", k |-> 0, index |-> 0, transparency |-> 0]

Reflective(k) == [kind |-> "Reflective", k |-> k, index |-> 0, transparency |-> 0]

Refractive(index, transparency) ==
    [kind |-> "Refractive", k |-> 0, index |-> index, transparency |-> transparency]

FlatTexture(color) == [kind |-> "Color", color |-> color]

\* Material::new(texture).with_albedo(albedo).with_surface(surface)
Material(texture, albedo, surface) ==
    [texture |-> texture, albedo |-> albedo, surface |-> surface, scale |-> Q]

DefaultMaterial == Material(FlatTexture(Color(0, 90, 20)), Q, SurfaceDiffuse)

TextureCoord(uv, scale) == [uv |-> uv, scale |-> scale]

\* the % of f64: the remainder has the sign of the dividend
Fmod(a, b) == a - b * TDiv(a, b)

\* Checker::new(color).with_secondary(secondary)
Checker(primary, secondary) ==
    [kind |-> "Checker", primary |-> primary, secondary |-> secondary]

\* Checker::new(color): the secondary colour is color * 0.8
CheckerNew(color) == Checker(color, CScale(color, 80))

\* the fractional part of a scaled coordinate, brought into [0, 1)
Wrapped(u, scale) ==
    LET x == Fmod(Mul(u, scale), Q) IN IF x < 0 THEN x + Q ELSE x

\* Checker::color
CheckerColor(checker, coord) ==
    LET x == Wrapped(coord.uv[1], coord.scale)
        y == Wrapped(coord.uv[2], coord.scale)
    IN  IF (x > 50) # (y > 50) THEN checker.primary ELSE checker.secondary

\* Texture::color for a flat colour and for a checker
TextureColor(texture, coord) ==
    IF texture.kind = "Checker" THEN CheckerColor(texture, coord) ELSE texture.color

MaterialColor(material, coord) == TextureColor(material.texture, coord)

(***************************************************************************)
(* Intersections (shape/mod.rs)                                            *)
(***************************************************************************)
Intersection(distance, obj) ==
    [obj |-> obj, distance |-> distance,
     location |-> None, normal |-> None, tex_coord |-> None]

(***************************************************************************)
(* Sphere (shape/sphere.rs)                                                *)
(***************************************************************************)
Sphere(center, radius, material) ==
    [kind |-> "Sphere", center |-> center, radius |-> radius, material |-> material]

\* the filter of the candidate roots: |dist| **dist >= 0.0
RootOnRay(dist) == dist >= 0

\* a faulty variant: the largest of the roots that pass the filter
LargestRoot(candidates) ==
    LET kept == {c \in candidates : RootOnRay(c)}
    IN  IF kept = {} THEN None
        ELSE Some(CHOOSE c \in kept : \A e \in kept : c >= e)

\* min_by over the roots that pass the filter
SmallestRoot(candidates) ==
    LET kept == {c \in candidates : RootOnRay(c)}
    IN  IF kept = {} THEN None
        ELSE Some(CHOOSE c \in kept : \A e \in kept : c <= e)

\* the discriminant del and what follows it, given b and part.magnitude()
SphereRoots(s, b, mag) ==
    LET del == Mul(b, b) - Mul(mag, mag) + Mul(s.radius, s.radius)
    IN  IF del < 0 THEN None
        ELSE IF del = 0 /\ b >= 0 THEN Some(Intersection(b, s))
        ELSE LET dist == SmallestRoot({b + Sqrt(del), b - Sqrt(del)})
             IN  IF dist = None THEN None ELSE Some(Intersection(dist[1], s))

SphereIntersect(s, ray) ==
    SphereRoots(s, -Dot(ray.direction, VSub(ray.origin, s.center)),
                Magnitude(VSub(ray.origin, s.center)))

SphereNormalAt(s, point) == Some(Normalize(VSub(point, s.center)))

\* acos(t) / PI, exact at t = -1, 0, 1 and linear between
AcosOverPi(t) == TDiv(Q - t, 2)

\* atan2(z, x) / PI, exact on the axes and linear in the diamond angle between
Atan2OverPi(z, x) ==
    LET m == Abs(x) + Abs(z)
    IN  IF m = 0 THEN 0
        ELSE LET q == TDiv(Div(Abs(z), m), 2)
             IN  IF x >= 0 THEN (IF z >= 0 THEN q ELSE -q)
                 ELSE (IF z >= 0 THEN Q - q ELSE q - Q)

SphereTextureCoord(s, point) ==
    LET v == VSub(point, s.center)
    IN  TextureCoord(<<Mul(Q + Atan2OverPi(v[3], v[1]), TDiv(Q, 2)),
                       AcosOverPi(Div(v[2], s.radius))>>,
                     s.material.scale)

(***************************************************************************)
(* Plane (shape/plane.rs)                                                  *)
(***************************************************************************)
PLANE_EPS == 1

Plane(point, normal, material) ==
    LET t0    == Cross(normal, VK)
        t1    == IF Magnitude(t0) = 0 THEN Cross(normal, VJ) ELSE t0
        tex_x == Normalize(t1)
    IN  [kind |-> "Plane", point |-> point, normal |-> normal, material |-> material,
         tex_x |-> tex_x, tex_y |-> Normalize(Cross(normal, tex_x))]

\* a faulty variant: no computed distance is rejected
NeverBehind(d) == FALSE

\* the rejection of a computed distance: d < 0.0
Behind(d) == d < 0

PlaneIntersect(p, ray) ==
    LET denominator == Dot(ray.direction, VNeg(p.normal))
    IN  IF denominator < PLANE_EPS THEN None
        ELSE LET d == Div(Dot(VSub(ray.origin, p.point), p.normal), denominator)
             IN  IF Behind(d) THEN None ELSE Some(Intersection(d, p))

PlaneNormalAt(p, point) == Some(p.normal)

PlaneTextureCoord(p, point) ==
    LET v == VSub(point, p.point)
    IN  TextureCoord(<<Dot(v, p.tex_x), Dot(v, p.tex_y)>>, p.material.scale)

(***************************************************************************)
(* Triangle (shape/triangle.rs)                                            *)
(***************************************************************************)
EPSILON == 1

Triangle(p0, p1, p2, material) ==
    [kind |-> "Triangle", p0 |-> p0, p1 |-> p1, p2 |-> p2, material |-> material,
     raw_normal |-> Cross(VSub(p1, p0), VSub(p2, p0))]

\* a faulty variant: v is tested against 1 on its own
BarycentricVAlone(v0v2, dir, inv_det, u, qvec) ==
    LET v == Mul(Dot(dir, qvec), inv_det)
        d == Mul(Dot(v0v2, qvec), inv_det)
    IN  IF v < 0 \/ v > Q THEN None
        ELSE IF Behind(d) THEN None
        ELSE Some(<<d, <<u, v>>>>)

\* Option<(f64, Point2D)>: <<d, <<u, v>>>>
\* the second half of pre_calc_traingle_intersect: v and d, given u and qvec
BarycentricV(v0v2, dir, inv_det, u, qvec) ==
    LET v == Mul(Dot(dir, qvec), inv_det)
        d == Mul(Dot(v0v2, qvec), inv_det)
    IN  IF v < 0 \/ u + v > Q THEN None
        ELSE IF Behind(d) THEN None
        ELSE Some(<<d, <<u, v>>>>)

\* the first half of pre_calc_traingle_intersect: det and u, given tvec and pvec
BarycentricU(tvec, v0v1, v0v2, dir, pvec) ==
    LET det     == Dot(v0v1, pvec)
        inv_det == Div(Q, det)
        u       == Mul(Dot(tvec, pvec), inv_det)
    IN  IF det < EPSILON THEN None
        ELSE IF u < 0 \/ u > Q THEN None
        ELSE BarycentricV(v0v2, dir, inv_det, u, Cross(tvec, v0v1))

PreCalcTriangleIntersect(p0, v0v1, v0v2, ray) ==
    BarycentricU(VSub(ray.origin, p0), v0v1, v0v2, ray.direction,
                 Cross(ray.direction, v0v2))

TriangleIntersectRaw(p0, p1, p2, ray) ==
    PreCalcTriangleIntersect(p0, VSub(p1, p0), VSub(p2, p0), ray)

\* .map(|(d, _)| Intersection::new(d, shape_ref))
MapIntersection(t, r) == IF r = None THEN None ELSE Some(Intersection(r[1][1], t))

TriangleIntersect(t, ray) ==
    MapIntersection(t, TriangleIntersectRaw(t.p0, t.p1, t.p2, ray))

TriangleNormalAt(t, point) == Some(Normalize(t.raw_normal))

TriangleTextureCoord(t, point) ==
    LET n     == t.raw_normal
        denom == Dot(n, n)
        u     == Dot(n, Cross(VSub(t.p2, t.p1), VSub(point, t.p1)))
        v     == Dot(n, Cross(VSub(t.p0, t.p2), VSub(point, t.p2)))
    IN  TextureCoord(<<Div(u, denom), Div(v, denom)>>, t.material.scale)

(***************************************************************************)
(* Matrix4 (math/matrix.rs): row-major, m[r][c] with r, c in 1..4          *)
(***************************************************************************)
MatI ==
    << <<Q, 0, 0, 0>>, <<0, Q, 0, 0>>, <<0, 0, Q, 0>>, <<0, 0, 0, Q>> >>

Transpose(m) == [r \in 1..4 |-> [c \in 1..4 |-> m[c][r]]]

\* the 2x2 minors s0..s5 and c0..c5 of Matrix4::inverse
Minors(m) ==
    [s |-> << Mul(m[1][1], m[2][2]) - Mul(m[2][1], m[1][2]),
              Mul(m[1][1], m[2][3]) - Mul(m[2][1], m[1][3]),
              Mul(m[1][1], m[2][4]) - Mul(m[2][1], m[1][4]),
              Mul(m[1][2], m[2][3]) - Mul(m[2][2], m[1][3]),
              Mul(m[1][2], m[2][4]) - Mul(m[2][2], m[1][4]),
              Mul(m[1][3], m[2][4]) - Mul(m[2][3], m[1][4]) >>,
     c |-> << Mul(m[3][1], m[4][2]) - Mul(m[4][1], m[3][2]),
              Mul(m[3][1], m[4][3]) - Mul(m[4][1], m[3][3]),
              Mul(m[3][1], m[4][4]) - Mul(m[4][1], m[3][4]),
              Mul(m[3][2], m[4][3]) - Mul(m[4][2], m[3][3]),
              Mul(m[3][2], m[4][4]) - Mul(m[4][2], m[3][4]),
              Mul(m[3][3], m[4][4]) - Mul(m[4][3], m[3][4]) >>]

\* the determinant Matrix4::inverse computes from the minors k
\* a faulty variant: the product s2 * c3 is subtracted
InverseDetSigned(k) ==
    Mul(k.s[1], k.c[6]) - Mul(k.s[2], k.c[5]) - Mul(k.s[3], k.c[4])
    + Mul(k.s[4], k.c[3]) - Mul(k.s[5], k.c[2]) + Mul(k.s[6], k.c[1])

InverseDet(k) ==
    Mul(k.s[1], k.c[6]) - Mul(k.s[2], k.c[5]) + Mul(k.s[3], k.c[4])
    + Mul(k.s[4], k.c[3]) - Mul(k.s[5], k.c[2]) + Mul(k.s[6], k.c[1])

\* the early return of Matrix4::inverse: det == 0.0
NoInverse(k) == InverseDet(k) = 0

\* the entries of the inverse, given the minors k
InverseFrom(m, k) ==
    LET s0 == k.s[1]
        s1 == k.s[2]
        s2 == k.s[3]
        s3 == k.s[4]
        s4 == k.s[5]
        s5 == k.s[6]
        c0 == k.c[1]
        c1 == k.c[2]
        c2 == k.c[3]
        c3 == k.c[4]
        c4 == k.c[5]
        c5 == k.c[6]
        invdet == Div(Q, InverseDet(k))
        T3(a, x, b, y, c, z) == Mul(Mul(a, x) + Mul(b, y) + Mul(c, z), invdet)
    IN  IF NoInverse(k) THEN None
        ELSE Some(<<
          << T3( m[2][2], c5, -m[2][3], c4,  m[2][4], c3),
             T3(-m[1][2], c5,  m[1][3], c4, -m[1][4], c3),
             T3( m[4][2], s5, -m[4][3], s4,  m[4][4], s3),
             T3(-m[3][2], s5,  m[3][3], s4, -m[3][4], s3) >>,
          << T3(-m[2][1], c5,  m[2][3], c2, -m[2][4], c1),
             T3( m[1][1], c5, -m[1][3], c2,  m[1][4], c1),
             T3(-m[4][1], s5,  m[4][3], s2, -m[4][4], s1),
             T3( m[3][1], s5, -m[3][3], s2,  m[3][4], s1) >>,
          << T3( m[2][1], c4, -m[2][2], c2,  m[2][4], c0),
             T3(-m[1][1], c4,  m[1][2], c2, -m[1][4], c0),
             T3( m[4][1], s4, -m[4][2], s2,  m[4][4], s0),
             T3(-m[3][1], s4,  m[3][2], s2, -m[3][4], s0) >>,
          << T3(-m[2][1], c3,  m[2][2], c1, -m[2][3], c0),
             T3( m[1][1], c3, -m[1][2], c1,  m[1][3], c0),
             T3(-m[4][1], s3,  m[4][2], s1, -m[4][3], s0),
             T3( m[3][1], s3, -m[3][2], s1,  m[3][3], s0) >> >>)

\* a faulty variant: the identity stands in for the inverse that does not exist
InverseOrIdentity(m) == IF NoInverse(Minors(m)) THEN Some(MatI) ELSE InverseFrom(m, Minors(m))

\* Matrix4::inverse: Option<Matrix4>
Inverse(m) == InverseFrom(m, Minors(m))

\* one term of Matrix4::det: self[0][a] * self[1][b] * self[2][c] * self[3][d]
DetTerm(m, a, b, c, d) == Mul(Mul(Mul(m[1][a + 1], m[2][b + 1]), m[3][c + 1]), m[4][d + 1])

\* Matrix4::det: the 24 signed terms in the order of the source
Det(m) ==
      DetTerm(m, 3, 2, 1, 0) - DetTerm(m, 2, 3, 1, 0) - DetTerm(m, 3, 1, 2, 0)
    + DetTerm(m, 1, 3, 2, 0) + DetTerm(m, 2, 1, 3, 0) - DetTerm(m, 1, 2, 3, 0)
    - DetTerm(m, 3, 2, 0, 1) + DetTerm(m, 2, 3, 0, 1) + DetTerm(m, 3, 0, 2, 1)
    - DetTerm(m, 0, 3, 2, 1) - DetTerm(m, 2, 0, 3, 1) + DetTerm(m, 0, 2, 3, 1)
    + DetTerm(m, 3, 1, 0, 2) - DetTerm(m, 1, 3, 0, 2) - DetTerm(m, 3, 0, 1, 2)
    + DetTerm(m, 0, 3, 1, 2) + DetTerm(m, 1, 0, 3, 2) - DetTerm(m, 0, 1, 3, 2)
    - DetTerm(m, 2, 1, 0, 3) + DetTerm(m, 1, 2, 0, 3) + DetTerm(m, 2, 0, 1, 3)
    - DetTerm(m, 0, 2, 1, 3) - DetTerm(m, 1, 0, 2, 3) + DetTerm(m, 0, 1, 2, 3)

\* Matrix4 * Point3D: the fourth term of the point is 1
MatPoint(a, b) ==
    [i \in 1..3 |-> Mul(b[1], a[i][1]) + Mul(b[2], a[i][2]) + Mul(b[3], a[i][3]) + a[i][4]]

\* Matrix4 * Vector3: the translation is ignored
MatVec(a, b) ==
    [i \in 1..3 |-> Mul(b[1], a[i][1]) + Mul(b[2], a[i][2]) + Mul(b[3], a[i][3])]

\* Matrix4 * Matrix4: out[i][j] = rows[i].dot(cols[j])
RowDotColumn(a, b, i, j) ==
    Mul(a[i][1], b[1][j]) + Mul(a[i][2], b[2][j]) + Mul(a[i][3], b[3][j]) + Mul(a[i][4], b[4][j])

MatMulRow(a, b, i) ==
    <<RowDotColumn(a, b, i, 1), RowDotColumn(a, b, i, 2),
      RowDotColumn(a, b, i, 3), RowDotColumn(a, b, i, 4)>>

MatMul(a, b) ==
    CHOOSE out \in {<<MatMulRow(p[1], p[2], 1), MatMulRow(p[1], p[2], 2),
                      MatMulRow(p[1], p[2], 3), MatMulRow(p[1], p[2], 4)>> :
                    p \in {<<a, b>>}} : TRUE

(***************************************************************************)
(* Transform (math/transform.rs): the builder of transformation matrices.  *)
(* The angles are multiples of a quarter turn, whose cosines and sines are *)
(* 0, 1 and -1 to the precision of the grid.                               *)
(***************************************************************************)
Cos(degrees) ==
    CASE degrees % 360 = 0 -> Q
      [] degrees % 360 = 90 -> 0
      [] degrees % 360 = 180 -> -Q
      [] degrees % 360 = 270 -> 0

Sin(degrees) ==
    CASE degrees % 360 = 0 -> 0
      [] degrees % 360 = 90 -> Q
      [] degrees % 360 = 180 -> 0
      [] degrees % 360 = 270 -> -Q

\* Transform::new
TransformNew == [rotations |-> <<>>, scale |-> MatI, trans |-> <<0, 0, 0>>]

\* the matrices rotate_x, rotate_y and rotate_z push
RotationX(degrees) ==
    << <<Q, 0, 0, 0>>,
       <<0, Cos(degrees), -Sin(degrees), 0>>,
       <<0, Sin(degrees), Cos(degrees), 0>>,
       <<0, 0, 0, Q>> >>

RotationY(degrees) ==
    << <<Cos(degrees), 0, Sin(degrees), 0>>,
       <<0, Q, 0, 0>>,
       <<-Sin(degrees), 0, Cos(degrees), 0>>,
       <<0, 0, 0, Q>> >>

RotationZ(degrees) ==
    << <<Cos(degrees), -Sin(degrees), 0, 0>>,
       <<Sin(degrees), Cos(degrees), 0, 0>>,
       <<0, 0, Q, 0>>,
       <<0, 0, 0, Q>> >>

TransformRotateX(t, degrees) == [t EXCEPT !.rotations = Append(@, RotationX(degrees))]

TransformRotateY(t, degrees) == [t EXCEPT !.rotations = Append(@, RotationY(degrees))]

TransformRotateZ(t, degrees) == [t EXCEPT !.rotations = Append(@, RotationZ(degrees))]

\* Transform::scale: the three entries of the diagonal
TransformScale(t, val) ==
    [t EXCEPT !.scale[1][1] = val, !.scale[2][2] = val, !.scale[3][3] = val]

\* Transform::scale_x, scale_y, scale_z: the entry of axis i
TransformScaleAxis(t, i, val) == [t EXCEPT !.scale[i][i] = val]

TransformTranslate(t, vec) == [t EXCEPT !.trans = vec]

\* a faulty variant: the fold runs over the rotations first to last
RECURSIVE FoldForward(_, _)
FoldForward(rotations, k) ==
    IF k > Len(rotations) THEN MatI
    ELSE MatMul(rotations[k], FoldForward(rotations, k + 1))

\* rotations.iter().rev().fold(I, |a, e| a * e), from rotation k down to the first
RECURSIVE FoldRev(_, _)
FoldRev(rotations, k) ==
    IF k > Len(rotations) THEN MatI
    ELSE MatMul(FoldRev(rotations, k + 1), rotations[k])

\* the assignments r[0][3], r[1][3], r[2][3]
WithLastColumn(r, trans) ==
    [i \in 1..4 |-> IF i <= 3 THEN [r[i] EXCEPT ![4] = trans[i]] ELSE r[i]]

\* Transform::build
TransformBuild(t) == WithLastColumn(MatMul(FoldRev(t.rotations, 1), t.scale), t.trans)

(***************************************************************************)
(* BoundingBox (shape/cube.rs).  1.0 / 0.0 is INFINITY and 0.0 * INFINITY  *)
(* is NaN, which compares false with everything.                           *)
(***************************************************************************)
NaN == -INFINITY - 1

BoundingBox(min, max) == [min |-> min, max |-> max]

InvDir(c) == IF c = 0 THEN INFINITY ELSE Div(Q, c)

TimesInv(a, inv) ==
    IF inv = INFINITY
    THEN (IF a > 0 THEN INFINITY ELSE IF a < 0 THEN -INFINITY ELSE NaN)
    ELSE Mul(a, inv)

FGt(a, b) == a # NaN /\ b # NaN /\ a > b

FLt(a, b) == a # NaN /\ b # NaN /\ a < b

\* (bounds[sign[i]] - origin) * invdir[i]
SlabNear(bb, ray, i, inv) ==
    TimesInv((IF inv < 0 THEN bb.max[i] ELSE bb.min[i]) - ray.origin[i], inv)

\* (bounds[1 - sign[i]] - origin) * invdir[i]
SlabFar(bb, ray, i, inv) ==
    TimesInv((IF inv < 0 THEN bb.min[i] ELSE bb.max[i]) - ray.origin[i], inv)

\* t = t_min, or t_max when t_min is behind the origin
SlabExit(t_min, t_max) ==
    IF FLt(t_min, 0) THEN (IF FLt(t_max, 0) THEN None ELSE Some(t_max))
    ELSE Some(t_min)

\* the test against the z slab and the narrowing that follows it
SlabZ(t_min, t_max, t_zmin, t_zmax) ==
    IF FGt(t_min, t_zmax) \/ FGt(t_zmin, t_max) THEN None
    ELSE SlabExit(IF FGt(t_zmin, t_min) THEN t_zmin ELSE t_min,
                  IF FLt(t_zmax, t_max) THEN t_zmax ELSE t_max)

\* the test against the y slab and the narrowing that follows it
SlabY(bb, ray, t_min, t_max, t_ymin, t_ymax) ==
    IF FGt(t_min, t_ymax) \/ FGt(t_ymin, t_max) THEN None
    ELSE SlabZ(IF FGt(t_ymin, t_min) THEN t_ymin ELSE t_min,
               IF FLt(t_ymax, t_max) THEN t_ymax ELSE t_max,
               SlabNear(bb, ray, 3, InvDir(ray.direction[3])),
               SlabFar(bb, ray, 3, InvDir(ray.direction[3])))

\* Option<f64>: the slab distance t
BoundingBoxIntersect(bb, ray) ==
    SlabY(bb, ray,
          SlabNear(bb, ray, 1, InvDir(ray.direction[1])),
          SlabFar(bb, ray, 1, InvDir(ray.direction[1])),
          SlabNear(bb, ray, 2, InvDir(ray.direction[2])),
          SlabFar(bb, ray, 2, InvDir(ray.direction[2])))

(***************************************************************************)
(* GeoMesh (geo.rs) and TriangleMesh (shape/mesh.rs).  Vertex indices are  *)
(* 0-based as in the source; sequences are 1-based.                        *)
(***************************************************************************)
Vertex(point, normal, texture_coord) ==
    [point |-> point, normal |-> normal, texture_coord |-> texture_coord]

\* a faulty variant: the search for the minimum starts at 0
AxisMinFromZero(points, i) ==
    IF Len(points) = 0 THEN 0
    ELSE Min(0, CHOOSE v \in {points[k][i] : k \in 1..Len(points)} :
                    \A k \in 1..Len(points) : v <= points[k][i])

\* the extrema loop shared by GeoMesh::from_str and TriangleMesh::transform
AxisMin(points, i) ==
    IF Len(points) = 0 THEN INFINITY
    ELSE CHOOSE v \in {points[k][i] : k \in 1..Len(points)} :
             \A k \in 1..Len(points) : v <= points[k][i]

AxisMax(points, i) ==
    IF Len(points) = 0 THEN -INFINITY
    ELSE CHOOSE v \in {points[k][i] : k \in 1..Len(points)} :
             \A k \in 1..Len(points) : v >= points[k][i]

Extrema(points) ==
    BoundingBox([i \in 1..3 |-> AxisMin(points, i)], [i \in 1..3 |-> AxisMax(points, i)])

RECURSIVE SumTo(_, _)
SumTo(f, n) == IF n = 0 THEN 0 ELSE f[n] + SumTo(f, n - 1)

\* the offset of face i (1-based) in vertex_index
FaceStart(faces, i) == SumTo(faces, i - 1)

\* geo = [faces: sizes of the faces, vertex_index, vertices: points, tex_coords]
GeoMesh(geo) ==
    LET nf == Len(geo.faces)
        at(k) == geo.vertices[geo.vertex_index[k] + 1]
        face_normal(i) ==
            LET st == FaceStart(geo.faces, i)
            IN  Normalize(Cross(VSub(at(st + 2), at(st + 1)), VSub(at(st + 3), at(st + 1))))
        face_normals == [i \in 1..nf |-> face_normal(i)]
        \* the normals pushed for vertex v, in face order, one per occurrence
        adjoining(v) ==
            LET occ == {<<i, j>> \in (1..nf) \X (1..Len(geo.vertex_index)) :
                           j <= geo.faces[i]
                           /\ geo.vertex_index[FaceStart(geo.faces, i) + j] = v}
            IN  occ
        vertex_normal(v) ==
            LET occ == adjoining(v)
                sum[S \in SUBSET occ] ==
                    IF S = {} THEN <<0, 0, 0>>
                    ELSE LET o == CHOOSE o \in S : TRUE
                         IN  VAdd(sum[S \ {o}], face_normals[o[1]])
            IN  Normalize(VDivS(sum[occ], F(Cardinality(occ))))
    IN  [num_faces |-> nf,
         face_index |-> geo.faces,
         vertex_index |-> geo.vertex_index,
         vertices |-> [v \in 1..Len(geo.vertices) |->
                          Vertex(geo.vertices[v], vertex_normal(v - 1), geo.tex_coords[v])],
         face_normals |-> face_normals,
         bounding_box |-> Extrema(geo.vertices)]

TriAddr(vertices, v0, v1, v2) ==
    [v0 |-> v0, v1 |-> v1, v2 |-> v2,
     v0v1 |-> VSub(vertices[v1 + 1].point, vertices[v0 + 1].point),
     v0v2 |-> VSub(vertices[v2 + 1].point, vertices[v0 + 1].point)]

RECURSIVE StripTriangles(_, _)
\* a faulty variant: each triangle starts one vertex further along the face
StripTriangles(g, i) ==
    IF i = 0 THEN <<>>
    ELSE LET k == FaceStart(g.face_index, i)
         IN  StripTriangles(g, i - 1) \o
             [j \in 1..(g.face_index[i] - 2) |->
                 TriAddr(g.vertices, g.vertex_index[k + j],
                         g.vertex_index[k + j + 1], g.vertex_index[k + j + 2])]

RECURSIVE FanTriangles(_, _)
\* the triangles of faces 1..i, each face fanned from its first vertex
FanTriangles(g, i) ==
    IF i = 0 THEN <<>>
    ELSE LET k == FaceStart(g.face_index, i)
         IN  FanTriangles(g, i - 1) \o
             [j \in 1..(g.face_index[i] - 2) |->
                 TriAddr(g.vertices, g.vertex_index[k + 1],
                         g.vertex_index[k + j + 1], g.vertex_index[k + j + 2])]

RECURSIVE FanNormals(_, _)
FanNormals(g, i) ==
    IF i = 0 THEN <<>>
    ELSE FanNormals(g, i - 1) \o [j \in 1..(g.face_index[i] - 2) |-> g.face_normals[i]]

\* impl From<GeoMesh> for TriangleMesh
TriangleMesh(g) ==
    LET triangles == FanTriangles(g, g.num_faces)
    IN  [kind |-> "TriangleMesh",
         num_triangles |-> SumTo([i \in 1..g.num_faces |-> g.face_index[i] - 2], g.num_faces),
         vertices |-> g.vertices,
         triangles |-> triangles,
         triangle_normals |-> FanNormals(g, g.num_faces),
         bounding_box |-> g.bounding_box,
         material |-> DefaultMaterial,
         wto |-> MatI,
         otw |-> MatI,
         shading_mode |-> "Flat"]

WithShading(mesh, mode) == [mesh EXCEPT !.shading_mode = mode]

\* (f64, Point2D)::partial_cmp is Less: lexicographic on d, u, v
HitLess(a, b) ==
    \/ a[1] < b[1]
    \/ a[1] = b[1] /\ a[2][1] < b[2][1]
    \/ a[1] = b[1] /\ a[2][1] = b[2][1] /\ a[2][2] < b[2][2]

TriangleHit(m, ray, i) ==
    IF i > Len(m.triangles) THEN None
    ELSE LET tri == m.triangles[i]
         IN  PreCalcTriangleIntersect(m.vertices[tri.v0 + 1].point, tri.v0v1, tri.v0v2, ray)

\* a faulty variant: the hit of the last triangle struck wins
LatestHit(best, h, i) == IF h # None THEN Some(<<h[1], i>>) ELSE best

\* one comparison of min_by: the hit h of triangle i against the least so far
MinHit(best, h, i) ==
    IF h # None /\ (best = None \/ HitLess(h[1], best[1][1]))
    THEN Some(<<h[1], i>>)
    ELSE best

RECURSIVE NearestTriangle(_, _, _, _)
\* min_by over the triangles i..num_triangles: the first of the least hits
\* (the hit of triangle i is bound by a set of one element, to compute it once)
NearestTriangle(m, ray, i, best) ==
    IF i > m.num_triangles THEN best
    ELSE CHOOSE r \in {NearestTriangle(m, ray, i + 1, MinHit(best, h, i)) :
                          h \in {TriangleHit(m, ray, i)}} : TRUE

V2Blend(u, v, a, b, c) ==
    << Mul(Q - u - v, a[1]) + Mul(u, b[1]) + Mul(v, c[1]),
       Mul(Q - u - v, a[2]) + Mul(u, b[2]) + Mul(v, c[2]) >>

V3Blend(u, v, a, b, c) ==
    VAdd(VAdd(VScale(a, Q - u - v), VScale(b, u)), VScale(c, v))

\* the intersection built from the least hit, best = Some(<<<<d, uv>>, index>>)
MeshHit(m, ray, best) ==
    IF best = None THEN None
    ELSE LET dist == best[1][1][1]
             uv   == best[1][1][2]
             ti   == best[1][2]
             tri  == m.triangles[ti]
             v0   == m.vertices[tri.v0 + 1]
             v1   == m.vertices[tri.v1 + 1]
             v2   == m.vertices[tri.v2 + 1]
             hit_coord == V2Blend(uv[1], uv[2], v0.texture_coord,
                                  v1.texture_coord, v2.texture_coord)
             normal == IF m.shading_mode = "Flat" THEN m.triangle_normals[ti]
                       ELSE V3Blend(uv[1], uv[2], v0.normal, v1.normal, v2.normal)
         IN  IF m.shading_mode = "Flat" /\ ti > Len(m.triangle_normals) THEN None
             ELSE Some([obj |-> m, distance |-> dist,
                        location |-> Some(PointAt(ray, dist)),
                        normal |-> Some(normal),
                        tex_coord |-> Some(TextureCoord(hit_coord, m.material.scale))])

MeshIntersect(m, ray) ==
    IF BoundingBoxIntersect(m.bounding_box, ray) = None THEN None
    ELSE CHOOSE r \in {MeshHit(m, ray, best) :
                          best \in {NearestTriangle(m, ray, 1, None)}} : TRUE

\* the panic of TriangleMesh::normal_at and TriangleMesh::texture_coord
Panic == <<"panic", "panic">>

VertexTransform(v, matrix, t_inv_matrix) ==
    [v EXCEPT !.point = MatPoint(matrix, v.point), !.normal = MatVec(t_inv_matrix, v.normal)]

\* a faulty variant: the extrema loop runs over the vertices as they were
ScannedEarly(before, after) == before

\* the vertices the extrema loop of transform runs over: the transformed ones
Scanned(before, after) == after

\* a faulty variant: the edge vectors are taken from the vertices as they were
RecomputedEarly(before, after) == before

\* the vertices the edge vectors are recomputed from: the transformed ones
Recomputed(before, after) == after

\* Result<()> and the mesh it leaves, [ok, mesh], given matrix.inverse()
TransformWith(m, matrix, inv) ==
        IF inv = None THEN [ok |-> FALSE, mesh |-> m]
        ELSE LET wto == inv[1]
                 transpose == Transpose(wto)
                 vertices == [k \in 1..Len(m.vertices) |->
                                 VertexTransform(m.vertices[k], matrix, transpose)]
                 scanned == Scanned(m.vertices, vertices)
                 box == Extrema([k \in 1..Len(scanned) |-> scanned[k].point])
             IN  [ok |-> TRUE,
                  mesh |-> [m EXCEPT
                     !.wto = wto,
                     !.otw = matrix,
                     !.vertices = vertices,
                     !.triangles = [k \in 1..Len(m.triangles) |->
                         TriAddr(Recomputed(m.vertices, vertices),
                                 m.triangles[k].v0, m.triangles[k].v1,
                                 m.triangles[k].v2)],
                     !.bounding_box = box]]

MeshTransform(m, matrix) == TransformWith(m, matrix, Inverse(matrix))

(***************************************************************************)
(* Shape (shape/mod.rs): the closed set of variants                        *)
(***************************************************************************)
ShapeIntersect(shape, ray) ==
    CASE shape.kind = "Sphere" -> SphereIntersect(shape, ray)
      [] shape.kind = "Plane" -> PlaneIntersect(shape, ray)
      [] shape.kind = "Triangle" -> TriangleIntersect(shape, ray)
      [] shape.kind = "TriangleMesh" -> MeshIntersect(shape, ray)

ShapeNormalAt(shape, point) ==
    CASE shape.kind = "Sphere" -> SphereNormalAt(shape, point)
      [] shape.kind = "Plane" -> PlaneNormalAt(shape, point)
      [] shape.kind = "Triangle" -> TriangleNormalAt(shape, point)
      [] shape.kind = "TriangleMesh" -> Panic

ShapeTextureCoord(shape, point) ==
    CASE shape.kind = "Sphere" -> Some(SphereTextureCoord(shape, point))
      [] shape.kind = "Plane" -> Some(PlaneTextureCoord(shape, point))
      [] shape.kind = "Triangle" -> Some(TriangleTextureCoord(shape, point))
      [] shape.kind = "TriangleMesh" -> Panic

(***************************************************************************)
(* Lights (light/mod.rs, light/point.rs, light/directional.rs)             *)
(***************************************************************************)
LIGHT_GUARD == 1

PointLight(location, color, intensity) ==
    [kind |-> "Point", location |-> location, direction |-> <<0, 0, 0>>,
     color |-> color, intensity |-> intensity]

DirectionalLight(direction, color, intensity) ==
    [kind |-> "Directional", location |-> <<0, 0, 0>>, direction |-> direction,
     color |-> color, intensity |-> intensity]

LightDirectionFrom(light, point) ==
    IF light.kind = "Point" THEN Normalize(VSub(light.location, point))
    ELSE VNeg(light.direction)

LightDistance(light, point) ==
    IF light.kind = "Point" THEN PointDist(light.location, point) ELSE INFINITY

LightIntensityAt(light, point) ==
    IF light.kind = "Point"
    THEN LET r2 == Norm(VSub(light.location, point))
         IN  IF r2 < LIGHT_GUARD THEN light.intensity
             ELSE Div(light.intensity, Mul(Mul(F(4), PI), r2))
    ELSE light.intensity

(***************************************************************************)
(* Camera (camera.rs) and View (scene.rs)                                  *)
(***************************************************************************)
Camera(origin, look, fov_deg) ==
    LET forward == Normalize(VSub(look, origin))
        right   == Cross(VJ, forward)
    IN  [origin |-> origin, forward |-> forward, right |-> right,
         up |-> Cross(forward, right), fov_deg |-> fov_deg]

\* (fov_radians / 2).tan() for the fields of view the scenes use
TanHalfFov(fov_deg) ==
    CASE fov_deg = 90 -> Q
      [] fov_deg = 70 -> 70
      [] fov_deg = 120 -> 173

View(width, height) == [width |-> width, height |-> height]

ToPlaneCoord(view, x, y) ==
    <<F(x) - Div(F(view.width), F(2)), Div(F(view.height), F(2)) - F(y)>>

PrimaryRay(camera, view, x, y) ==
    LET d == Div(Div(F(view.width), F(2)), TanHalfFov(camera.fov_deg))
        s == ToPlaneCoord(view, x, y)
        v == Normalize(VAdd(VAdd(VScale(camera.forward, d), VScale(camera.right, s[1])),
                            VScale(camera.up, s[2])))
    IN  NewRay(camera.origin, v)

(***************************************************************************)
(* Scene (scene.rs): nearest hit, direct illumination, Fresnel             *)
(***************************************************************************)
SHADOW_OFFSET == 1

RAY_OFFSET == 1

Scene(cameras, lights, shapes, view, background, max_generations) ==
    [cameras |-> cameras, lights |-> lights, shapes |-> shapes, view |-> view,
     background |-> background, max_generations |-> max_generations]

\* a faulty variant: the hit of the last shape wins, whatever its distance
Latest(best, h) == IF h # None THEN h ELSE best

\* one comparison of min_by: the hit h against the least so far
Nearer(best, h) ==
    IF h # None /\ (best = None \/ h[1].distance < best[1].distance) THEN h ELSE best

RECURSIVE ClosestFrom(_, _, _, _)
\* min_by over the hits of shapes i..n: the first of the least distances
ClosestFrom(shapes, ray, i, best) ==
    IF i > Len(shapes) THEN best
    ELSE ClosestFrom(shapes, ray, i + 1, Nearer(best, ShapeIntersect(shapes[i], ray)))

GetClosestIntersection(sc, ray) == ClosestFrom(sc.shapes, ray, 1, None)

ShadowRay(light, point, normal) ==
    NewRay(VAdd(point, VScale(normal, SHADOW_OFFSET)), LightDirectionFrom(light, point))

\* a faulty variant: any hit of the shadow ray counts, however far it is
AnyHit(hit, light_distance) == hit # None

\* a faulty variant: normal.dot(dir) without .max(0.0)
Unclamped(cosine) == cosine

\* normal.dot(dir).max(0.0)
Facing(cosine) == Max(cosine, 0)

\* the match guard of Scene::diffuse: Some(d) if light.distance(&point) > d
InShadow(hit, light_distance) == hit # None /\ light_distance > hit[1].distance

\* what one round of the loop over the lights adds to the colour, given the
\* nearest hit of the shadow ray
LightTermFor(shape, point, normal, texture_coord, light, hit) ==
    LET dir       == LightDirectionFrom(light, point)
        intensity == IF InShadow(hit, LightDistance(light, point)) THEN 0
                     ELSE LightIntensityAt(light, point)
        power     == Mul(Facing(Dot(normal, dir)), intensity)
        reflected == Div(shape.material.albedo, PI)
    IN  CScale(CScale(CMul(MaterialColor(shape.material, texture_coord), light.color),
                      power), reflected)

\* one round of the loop over the lights
LightTerm(sc, shape, point, normal, texture_coord, light) ==
    LightTermFor(shape, point, normal, texture_coord, light,
                 GetClosestIntersection(sc, ShadowRay(light, point, normal)))

RECURSIVE DiffuseUpTo(_, _, _, _, _, _)
DiffuseUpTo(sc, shape, point, normal, texture_coord, n) ==
    IF n = 0 THEN BLACK
    ELSE CAdd(DiffuseUpTo(sc, shape, point, normal, texture_coord, n - 1),
              LightTerm(sc, shape, point, normal, texture_coord, sc.lights[n]))

Diffuse(sc, shape, point, normal, texture_coord) ==
    DiffuseUpTo(sc, shape, point, normal, texture_coord, Len(sc.lights))

\* the two polarisations, given ct
FresnelTerms(eta_i, eta_t, ct) ==
    LET ci == Abs(ct)
        sp == Div(Mul(eta_t, ci) - Mul(eta_i, ct), Mul(eta_t, ci) + Mul(eta_i, ct))
        pp == Div(Mul(eta_i, ci) - Mul(eta_t, ct), Mul(eta_i, ci) + Mul(eta_t, ct))
    IN  Div(Mul(sp, sp) + Mul(pp, pp), F(2))

\* total internal reflection, or the two polarisations, given st
FresnelSin(eta_i, eta_t, st) ==
    IF st > Q THEN Q ELSE FresnelTerms(eta_i, eta_t, Sqrt(Max(Q - Mul(st, st), 0)))

\* Scene::fresnel given i_dot_n
FresnelAt(i_dot_n, refractive_index) ==
    LET eta_i == IF i_dot_n > 0 THEN refractive_index ELSE Q
        eta_t == IF i_dot_n > 0 THEN Q ELSE refractive_index
    IN  FresnelSin(eta_i, eta_t,
                   Mul(Div(eta_i, eta_t), Sqrt(Max(Q - Mul(i_dot_n, i_dot_n), 0))))

Fresnel(ray, normal, refractive_index) ==
    FresnelAt(Dot(ray.direction, normal), refractive_index)

\* a faulty variant: the truncation test one generation late
TruncatedLate(sc, ray) == ray.generation > sc.max_generations

\* the truncation test of Scene::color_at
Truncated(sc, ray) == ray.generation >= sc.max_generations

HitPoint(ray, isect) ==
    IF isect.location # None THEN isect.location[1] ELSE PointAt(ray, isect.distance)

\* a faulty variant: the normal is asked of the shape, whatever the hit carries
HitNormalFromPoint(ray, isect) ==
    ShapeNormalAt(isect.obj, HitPoint(ray, isect))

\* Option<Vector3>, or Panic
HitNormal(ray, isect) ==
    IF isect.normal # None THEN isect.normal
    ELSE ShapeNormalAt(isect.obj, HitPoint(ray, isect))

\* Some(TextureCoord), or Panic
HitTextureCoord(ray, isect) ==
    IF isect.tex_coord # None THEN isect.tex_coord
    ELSE ShapeTextureCoord(isect.obj, HitPoint(ray, isect))

\* a faulty variant: the direct illumination is not scaled down by 1 - k
ReflectiveAdd(direct, reflectivity, reflect_color) ==
    CAdd(direct, CScale(reflect_color, reflectivity))

ReflectiveMix(direct, reflectivity, reflect_color) ==
    CAdd(CScale(direct, Q - reflectivity), CScale(reflect_color, reflectivity))

RefractiveMix(kr, refract_color, reflect_color, transparency, surface_color) ==
    CMul(CScale(CAdd(CScale(refract_color, Q - kr), CScale(reflect_color, kr)),
                transparency),
         surface_color)

\* the refracted ray Scene::color_at follows, if any
Transmission(ray, normal, point, kr, index) ==
    IF kr < Q THEN Refract(ray, normal, point, RAY_OFFSET, index) ELSE None

\* what the arms of the match on the surface return when a child call panicked
ReflectiveResult(direct, reflectivity, reflected) ==
    IF reflected = Panic THEN Panic
    ELSE Some(ReflectiveMix(direct, reflectivity, reflected[1]))

RefractiveResult(kr, refracted, reflected, transparency, surface_color) ==
    IF refracted = Panic \/ reflected = Panic THEN Panic
    ELSE Some(RefractiveMix(kr, refracted[1], reflected[1], transparency, surface_color))

RECURSIVE ColorFor(_, _)
RECURSIVE ColorAt(_, _, _)

\* the colour of the refracted ray t, black if there is none
RefractColor(sc, t) == IF t = None THEN Some(BLACK) ELSE ColorFor(sc, t[1])

\* the Refractive arm of Scene::color_at, given kr
ColorThrough(sc, ray, obj, point, normal, tex, kr) ==
    RefractiveResult(
        kr,
        RefractColor(sc, Transmission(ray, normal, point, kr, obj.material.surface.index)),
        ColorFor(sc, Reflect(ray, normal, point, RAY_OFFSET)),
        obj.material.surface.transparency,
        MaterialColor(obj.material, tex))

\* the match on the surface of Scene::color_at
ColorOfSurface(sc, ray, obj, point, normal, tex) ==
    CASE obj.material.surface.kind = "Diffuse" ->
             Some(Diffuse(sc, obj, point, normal, tex))
      [] obj.material.surface.kind = "Reflective" ->
             ReflectiveResult(Diffuse(sc, obj, point, normal, tex),
                              obj.material.surface.k,
                              ColorFor(sc, Reflect(ray, normal, point, RAY_OFFSET)))
      [] obj.material.surface.kind = "Refractive" ->
             ColorThrough(sc, ray, obj, point, normal, tex,
                          Fresnel(ray, normal, obj.material.surface.index))

\* Scene::color_at past the truncation test, given the hit point, the normal
\* (Option, or Panic) and the texture coordinate (Some, or Panic)
ColorAtHit(sc, ray, obj, point, normal, tex) ==
    IF normal = Panic THEN Panic
    ELSE IF normal = None THEN Some(BLACK)
    ELSE IF tex = Panic THEN Panic
    ELSE ColorOfSurface(sc, ray, obj, point, normal[1], tex[1])

\* Scene::color_at: Some(colour), or Panic when a mesh is asked for a normal or
\* a texture coordinate
ColorAt(sc, ray, isect) ==
    IF Truncated(sc, ray) THEN Some(BLACK)
    ELSE ColorAtHit(sc, ray, isect.obj, HitPoint(ray, isect), HitNormal(ray, isect),
                    HitTextureCoord(ray, isect))

\* the match of Scene::color_for on the nearest hit
ColorOfHit(sc, ray, hit) ==
    IF hit = None THEN Some(sc.background) ELSE ColorAt(sc, ray, hit[1])

\* Scene::color_for as a function of the scene and the ray
ColorFor(sc, ray) == ColorOfHit(sc, ray, GetClosestIntersection(sc, ray))

(***************************************************************************)
(* Bounds of the model                                                     *)
(***************************************************************************)
\* max_generations ranges over 0..MaxGen
MaxGen == 2

\* the raster is MaxW columns wide and up to MaxH rows high
MaxW == 2

MaxH == 2

(***************************************************************************)
(* The scenes the model renders, built with the constructors above         *)
(***************************************************************************)
\* a square in the plane z = 0, one face of four vertices
QuadGeo ==
    [faces |-> <<4>>,
     vertex_index |-> <<0, 1, 2, 3>>,
     vertices |-> << V3(-1, -1, 0), V3(-1, 1, 0), V3(1, 1, 0), V3(1, -1, 0) >>,
     tex_coords |-> << <<0, 0>>, <<0, Q>>, <<Q, Q>>, <<Q, 0>> >>]

\* a tetrahedron on the axes, four faces of three vertices
TetraGeo ==
    [faces |-> <<3, 3, 3, 3>>,
     vertex_index |-> <<0, 2, 1, 0, 1, 3, 0, 3, 2, 1, 2, 3>>,
     vertices |-> << V3(0, 0, 0), V3(1, 0, 0), V3(0, 1, 0), V3(0, 0, 1) >>,
     tex_coords |-> << <<0, 0>>, <<Q, 0>>, <<0, Q>>, <<Q, Q>> >>]

\* two triangles one behind the other, both facing -z: the nearer one at
\* z = 0 first, the farther one at z = 1 second
SheetsGeo ==
    [faces |-> <<3, 3>>,
     vertex_index |-> <<0, 1, 2, 3, 4, 5>>,
     vertices |-> << V3(-1, -1, 0), V3(-1, 1, 0), V3(1, 1, 0),
                     V3(-1, -1, 1), V3(-1, 1, 1), V3(1, 1, 1) >>,
     tex_coords |-> << <<0, 0>>, <<0, Q>>, <<Q, Q>>, <<0, 0>>, <<0, Q>>, <<Q, Q>> >>]

QuadMesh == TriangleMesh(GeoMesh(QuadGeo))

SheetsMesh == TriangleMesh(GeoMesh(SheetsGeo))

TetraMesh == TriangleMesh(GeoMesh(TetraGeo))

WhiteDiffuse == Material(FlatTexture(WHITE), Q, SurfaceDiffuse)

Mirror(k) == Material(FlatTexture(WHITE), Q, Reflective(k))

Glass == Material(FlatTexture(Color(Q, Q, 90)), Q, Refractive(150, Q))

Sky == Color(20, 30, 80)

\* a unit diffuse sphere at the origin under a white point light at (0, 10, 0)
LitSphere(n, view) ==
    Scene(<< Camera(V3(0, 5, 0), V3(0, 0, 0), 90),
             Camera(V3(0, -5, 0), V3(0, 0, 0), 90),
             Camera(V3(0, 0, -5), V3(0, 0, 0), 90) >>,
          << PointLight(V3(0, 10, 0), WHITE, F(3000)) >>,
          << Sphere(V3(0, 0, 0), F(1), WhiteDiffuse) >>,
          view, BLACK, n)

\* two half-mirrors facing each other, a light between them
Corridor(n, view) ==
    Scene(<< Camera(V3(0, 1, 0), V3(0, -1, 0), 90),
             Camera(V3(-1, 1, 0), V3(0, -2, 0), 90) >>,
          << PointLight(V3(0, 0, 0), WHITE, F(40)) >>,
          << Plane(V3(0, -2, 0), V3(0, 1, 0), Mirror(50)),
             Plane(V3(0, 2, 0), V3(0, -1, 0), Mirror(50)) >>,
          view, Sky, n)

\* a fully reflective sphere under a directional light
MirrorBall(n, view) ==
    Scene(<< Camera(V3(0, 0, -5), V3(0, 0, 0), 90),
             Camera(V3(5, 0, 0), V3(0, 0, 0), 70) >>,
          << DirectionalLight(V3(0, -1, 0), WHITE, Q) >>,
          << Sphere(V3(0, 0, 0), F(1), Mirror(Q)),
             Plane(V3(0, -2, 0), V3(0, 1, 0), DefaultMaterial) >>,
          view, Sky, n)

\* a sphere above a ground plane: the ground below it is in its shadow
Shadowed(n, view) ==
    Scene(<< Camera(V3(-4, 3, 0), V3(0, -1, 0), 90),
             Camera(V3(6, 0, 0), V3(4, -1, 0), 90) >>,
          << PointLight(V3(0, 5, 0), WHITE, F(400)),
             DirectionalLight(V3(0, -1, 0), Color(Q, 50, 50), Q) >>,
          << Plane(V3(0, -1, 0), V3(0, 1, 0), WhiteDiffuse),
             Sphere(V3(0, 1, 0), F(1), DefaultMaterial) >>,
          view, Sky, n)

\* a glass sphere in front of a diffuse wall
GlassBall(n, view) ==
    Scene(<< Camera(V3(0, 0, -5), V3(0, 0, 0), 90) >>,
          << PointLight(V3(0, 5, -5), WHITE, F(1000)) >>,
          << Sphere(V3(0, 0, 0), F(1), Glass),
             Plane(V3(0, 0, 4), V3(0, 0, -1), WhiteDiffuse) >>,
          view, Sky, n)

\* a smooth-shaded tetrahedron seen from close by, lit from the side: the
\* interpolated normal of the face in view leans away from the light
Facet(n, view) ==
    Scene(<< Camera(<<70, 15, -20>>, <<70, 15, 0>>, 90) >>,
          << PointLight(V3(-5, 0, -1), WHITE, F(3000)) >>,
          << WithShading(TetraMesh, "Smooth") >>,
          view, Sky, n)

\* a glass sphere of radius 3 seen from (3, 0, -4) along the z axis: the ray
\* through the middle of the raster touches the sphere at (3, 0, 0)
GlassEdge(n, view) ==
    Scene(<< Camera(V3(3, 0, -4), V3(3, 0, 0), 90) >>,
          << PointLight(V3(0, 5, -5), WHITE, F(1000)) >>,
          << Sphere(V3(0, 0, 0), F(3), Glass) >>,
          view, Sky, n)

Views == {View(MaxW, h) : h \in 1..MaxH}

Generations == 0..MaxGen

SceneSet ==
    UNION {{LitSphere(n, v), Corridor(n, v), MirrorBall(n, v), Shadowed(n, v),
            GlassBall(n, v), Facet(n, v), GlassEdge(n, v)} :
              <<n, v>> \in Generations \X Views}

(***************************************************************************)
(* State                                                                   *)
(***************************************************************************)
VARIABLES
    sc,       \* the scene being rendered
    stack,    \* the calls of color_for in progress, the innermost last
    ret,      \* what the call that ended last returned, until its caller takes it
    last,     \* the step taken last
    cam,      \* raytrace_cam / par_raytrace_cam: the index of the camera
    phase,    \* which part of the two renders is running
    col,      \* raytrace_cam: the loop variable x
    row,      \* raytrace_cam: the loop variable y
    img,      \* raytrace_cam: its image
    task,     \* par_raytrace_cam: the closure call of each column
    bufs,     \* par_raytrace_cam: the partial images allocated so far
    out,      \* par_raytrace_cam: its image
    hist,     \* par_raytrace_cam: who wrote where, and how often
    mesh,     \* the TriangleMesh being transformed
    mres,     \* the last call of TriangleMesh::transform and its result
    probe     \* one call of Shape::intersect: its shape, its ray and its result

shadeVars == <<stack, ret, last>>

renderVars == <<cam, phase, col, row, img, task, bufs, out, hist>>

meshVars == <<mesh, mres>>

vars == <<sc, stack, ret, last, cam, phase, col, row, img, task, bufs, out, hist,
          mesh, mres, probe>>

Frame(ray) ==
    [ray |-> ray, pc |-> "color_for", isect |-> None,
     point |-> <<0, 0, 0>>, normal |-> <<0, 0, 0>>, tex |-> TextureCoord(<<0, 0>>, 0),
     li |-> 0, direct |-> BLACK, kr |-> 0, refract_color |-> BLACK]

NoShape == [kind |-> "none"]

Event(op, ray, color) ==
    [op |-> op, ray |-> ray, color |-> color, light |-> 0,
     point |-> <<0, 0, 0>>, normal |-> <<0, 0, 0>>, tex |-> TextureCoord(<<0, 0>>, 0),
     obj |-> NoShape]

Top == stack[Len(stack)]

Pop == SubSeq(stack, 1, Len(stack) - 1)

SetTop(f) == [stack EXCEPT ![Len(stack)] = f]

Running == stack # <<>> /\ ret = None

PrimaryRays(scene) ==
    {PrimaryRay(scene.cameras[c], scene.view, x, y) :
        <<c, x, y>> \in (1..Len(scene.cameras)) \X (0..(scene.view.width - 1))
                        \X (0..(scene.view.height - 1))}

\* the parts of the state a specification does not use stay as they start
RenderIdle ==
    /\ cam = 0 /\ phase = "idle" /\ col = 0 /\ row = 0
    /\ img = <<>> /\ task = <<>> /\ bufs = <<>> /\ out = <<>> /\ hist = <<>>

MeshIdle == mesh = <<>> /\ mres = <<>>

ProbeIdle == probe = <<>>

ShadeIdle == stack = <<>> /\ ret = None /\ last = <<>>

Init ==
    /\ sc \in SceneSet
    /\ \E ray \in PrimaryRays(sc) :
          /\ stack = <<Frame(ray)>>
          /\ last = Event("start", ray, BLACK)
    /\ ret = None
    /\ RenderIdle /\ MeshIdle /\ ProbeIdle

(***************************************************************************)
(* Scene::color_for and Scene::color_at, one step at a time                *)
(***************************************************************************)
\* color_for: the nearest hit, or the background
ColorForStep ==
    /\ Running /\ Top.pc = "color_for"
    /\ \E hit \in {GetClosestIntersection(sc, Top.ray)} :
           IF hit = None
           THEN /\ stack' = Pop
                /\ ret' = Some(sc.background)
                /\ last' = Event("background", Top.ray, sc.background)
           ELSE /\ stack' = SetTop([Top EXCEPT !.pc = "color_at", !.isect = hit])
                /\ ret' = None
                /\ last' = [Event("hit", Top.ray, BLACK) EXCEPT !.obj = hit[1].obj]
    /\ UNCHANGED <<sc, renderVars, meshVars, probe>>

\* color_at: the generation bound
ColorAtTruncate ==
    /\ Running /\ Top.pc = "color_at"
    /\ Truncated(sc, Top.ray)
    /\ stack' = Pop
    /\ ret' = Some(BLACK)
    /\ last' = [Event("truncated", Top.ray, BLACK) EXCEPT !.obj = Top.isect[1].obj]
    /\ UNCHANGED <<sc, renderVars, meshVars, probe>>

\* color_at: the match on the surface, for the frame f that holds the hit point,
\* the normal and the texture coordinate
ColorAtSurface(f) ==
    LET obj  == f.isect[1].obj
        surf == obj.material.surface
    IN  IF surf.kind = "Refractive"
        THEN \E kr \in {Fresnel(f.ray, f.normal, surf.index)} :
             \E t \in {Transmission(f.ray, f.normal, f.point, kr, surf.index)} :
                /\ stack' =
                      IF t # None
                      THEN Append(SetTop([f EXCEPT !.pc = "refract_wait", !.kr = kr]),
                                  Frame(t[1]))
                      ELSE Append(SetTop([f EXCEPT !.pc = "reflect_wait", !.kr = kr]),
                                  Frame(Reflect(f.ray, f.normal, f.point, RAY_OFFSET)))
                /\ ret' = None
                /\ last' = [Event("fresnel", f.ray, BLACK) EXCEPT !.obj = obj]
        ELSE /\ stack' = SetTop([f EXCEPT !.pc = "diffuse", !.li = 1])
             /\ ret' = None
             /\ last' = [Event("resolved", f.ray, BLACK) EXCEPT !.obj = obj]

\* color_at: the hit point, normal and texture coordinate, then the surface
ColorAtResolve ==
    /\ Running /\ Top.pc = "color_at"
    /\ ~Truncated(sc, Top.ray)
    /\ \E point \in {HitPoint(Top.ray, Top.isect[1])},
          normal \in {HitNormal(Top.ray, Top.isect[1])},
          tex \in {HitTextureCoord(Top.ray, Top.isect[1])} :
          IF normal = Panic \/ (normal # None /\ tex = Panic)
          THEN /\ stack' = <<>>
               /\ ret' = Panic
               /\ last' = Event("panic", Top.ray, BLACK)
          ELSE IF normal = None
          THEN /\ stack' = Pop
               /\ ret' = Some(BLACK)
               /\ last' = Event("no_normal", Top.ray, BLACK)
          ELSE ColorAtSurface([Top EXCEPT !.point = point, !.normal = normal[1],
                                         !.tex = tex[1]])
    /\ UNCHANGED <<sc, renderVars, meshVars, probe>>

\* diffuse: one round of the loop over the lights
DiffuseLight ==
    /\ Running /\ Top.pc = "diffuse"
    /\ Top.li <= Len(sc.lights)
    /\ \E obj \in {Top.isect[1].obj},
          shadow \in {ShadowRay(sc.lights[Top.li], Top.point, Top.normal)} :
       \E hit \in {GetClosestIntersection(sc, shadow)} :
       \E term \in {LightTermFor(obj, Top.point, Top.normal, Top.tex,
                                 sc.lights[Top.li], hit)} :
           /\ stack' = SetTop([Top EXCEPT !.direct = CAdd(Top.direct, term),
                                          !.li = Top.li + 1])
           /\ last' = [Event("light", Top.ray, term) EXCEPT
                          !.light = Top.li, !.point = Top.point,
                          !.normal = Top.normal, !.tex = Top.tex, !.obj = obj]
    /\ UNCHANGED <<sc, ret, renderVars, meshVars, probe>>

\* diffuse returns: a diffuse surface is done, a reflective one follows the
\* reflected ray
DiffuseDone ==
    /\ Running /\ Top.pc = "diffuse"
    /\ Top.li > Len(sc.lights)
    /\ LET obj == Top.isect[1].obj
       IN  IF obj.material.surface.kind = "Diffuse"
           THEN /\ stack' = Pop
                /\ ret' = Some(Top.direct)
                /\ last' = [Event("shaded", Top.ray, Top.direct) EXCEPT
                               !.point = Top.point, !.normal = Top.normal,
                               !.tex = Top.tex, !.obj = obj]
           ELSE /\ stack' = Append(SetTop([Top EXCEPT !.pc = "reflect_wait"]),
                                   Frame(Reflect(Top.ray, Top.normal, Top.point,
                                                 RAY_OFFSET)))
                /\ ret' = None
                /\ last' = [Event("direct", Top.ray, Top.direct) EXCEPT !.obj = obj]
    /\ UNCHANGED <<sc, renderVars, meshVars, probe>>

\* the refracted ray's colour is back: follow the reflected ray
AfterRefract ==
    /\ stack # <<>> /\ ret # None /\ ret # Panic
    /\ Top.pc = "refract_wait"
    /\ stack' = Append(SetTop([Top EXCEPT !.pc = "reflect_wait",
                                          !.refract_color = ret[1]]),
                       Frame(Reflect(Top.ray, Top.normal, Top.point, RAY_OFFSET)))
    /\ ret' = None
    /\ last' = [Event("refracted", Top.ray, ret[1]) EXCEPT !.obj = Top.isect[1].obj]
    /\ UNCHANGED <<sc, renderVars, meshVars, probe>>

\* the reflected ray's colour is back: combine and return
AfterReflect ==
    /\ stack # <<>> /\ ret # None /\ ret # Panic
    /\ Top.pc = "reflect_wait"
    /\ LET obj  == Top.isect[1].obj
           surf == obj.material.surface
           color == IF surf.kind = "Reflective"
                    THEN ReflectiveMix(Top.direct, surf.k, ret[1])
                    ELSE RefractiveMix(Top.kr, Top.refract_color, ret[1],
                                       surf.transparency,
                                       MaterialColor(obj.material, Top.tex))
       IN  /\ stack' = Pop
           /\ ret' = Some(color)
           /\ last' = [Event("shaded", Top.ray, color) EXCEPT
                          !.point = Top.point, !.normal = Top.normal,
                          !.tex = Top.tex, !.obj = obj]
    /\ UNCHANGED <<sc, renderVars, meshVars, probe>>

Next ==
    \/ ColorForStep
    \/ ColorAtTruncate
    \/ ColorAtResolve
    \/ DiffuseLight
    \/ DiffuseDone
    \/ AfterRefract
    \/ AfterReflect

Spec == Init /\ [][Next]_vars

\* the recursion is a sequential computation: it runs while it can
LiveSpec == Spec /\ WF_vars(Next)

Done == stack = <<>>

\* the small steps compute what ColorFor computes
StepsAgree == Done => ret = ColorFor(sc, last.ray)

(***************************************************************************)
(* Scene::raytrace_cam and Scene::par_raytrace_cam (scene.rs).  The two    *)
(* renders of one camera run one after the other.  In the parallel render  *)
(* up to MaxWorkers closure calls are in progress at a time, interleaved   *)
(* pixel by pixel.  The source copies the collected partial images in the  *)
(* order of their column index; here they are copied in any order, which   *)
(* includes the order of the source.                                       *)
(***************************************************************************)
\* the closure calls that rayon runs at the same time
MaxWorkers == 2

\* DynamicImage::new_rgb8(w, h): every pixel zero
NewRgb8(w, h) == [p \in (0..(w - 1)) \X (0..(h - 1)) |-> <<0, 0, 0>>]

\* put_pixel(x, y, col.into()) on an RGB8 image: the alpha channel is dropped
PutPixel(image, x, y, color) ==
    [image EXCEPT ![<<x, y>>] = SubSeq(ToRgba(color), 1, 3)]

\* a faulty variant: the column index is dropped, every copy lands at column 0
ReplaceAtOrigin(bottom, top, x, y) ==
    [p \in DOMAIN bottom |->
        IF <<p[1], p[2] - y>> \in DOMAIN top THEN top[<<p[1], p[2] - y>>]
        ELSE bottom[p]]

\* the pixels of bottom that imageops::replace(&mut bottom, top, x, y) writes
Replaced(bottom, top, x, y) ==
    {p \in DOMAIN bottom : <<p[1] - x, p[2] - y>> \in DOMAIN top}

\* imageops::replace(&mut bottom, top, x, y): top overwrites bottom from (x, y)
Replace(bottom, top, x, y) ==
    [p \in DOMAIN bottom |->
        IF p \in Replaced(bottom, top, x, y) THEN top[<<p[1] - x, p[2] - y>>]
        ELSE bottom[p]]

\* the colour of pixel (x, y): Some(colour), or Panic
PixelColor(scene, camera, x, y) == ColorFor(scene, PrimaryRay(camera, scene.view, x, y))

\* a faulty variant: every closure call draws into the first partial image
SharedBuffer(allocated) == 1

\* the partial image a closure call allocates: a new one
NewBuffer(allocated) == Len(allocated) + 1

Columns == 0..(sc.view.width - 1)

Rows == 0..(sc.view.height - 1)

PendingTask == [st |-> "pending", y |-> 0, buf |-> 0]

NoWrites ==
    [started |-> [x \in Columns |-> 0],
     drawn   |-> [b \in 1..sc.view.width |-> [y \in Rows |-> <<>>]],
     copied  |-> <<>>,
     written |-> [p \in Columns \X Rows |-> 0]]

InRender(scene, camera) ==
    /\ sc = scene /\ cam = camera
    /\ phase = "seq" /\ col = 0 /\ row = 0
    /\ img = NewRgb8(scene.view.width, scene.view.height)
    /\ out = NewRgb8(scene.view.width, scene.view.height)
    /\ task = [x \in 0..(scene.view.width - 1) |-> PendingTask]
    /\ bufs = <<>>
    /\ hist = NoWrites
    /\ ShadeIdle /\ MeshIdle /\ ProbeIdle

\* the scenes rendered: one with shadows, one with reflection and one with
\* refraction, each with the deepest recursion
RenderScenes ==
    {Shadowed(MaxGen, v) : v \in Views} \cup {MirrorBall(MaxGen, v) : v \in Views}
    \cup {GlassBall(MaxGen, v) : v \in Views}

InitRender ==
    \E scene \in RenderScenes : \E camera \in 1..Len(scene.cameras) :
        InRender(scene, camera)

\* raytrace_cam: one round of the inner loop
SeqPixel ==
    /\ phase = "seq"
    /\ \E color \in {PixelColor(sc, sc.cameras[cam], col, row)} :
          IF color = Panic
          THEN /\ phase' = "panicked"
               /\ UNCHANGED <<img, col, row>>
          ELSE /\ img' = PutPixel(img, col, row, color[1])
               /\ IF row + 1 < sc.view.height
                  THEN /\ row' = row + 1
                       /\ UNCHANGED <<col, phase>>
                  ELSE /\ row' = 0
                       /\ col' = col + 1
                       /\ phase' = IF col + 1 < sc.view.width THEN "seq" ELSE "par"
    /\ UNCHANGED <<sc, cam, task, bufs, out, hist, shadeVars, meshVars, probe>>

InProgress(x) == task[x].st = "running"

\* par_raytrace_cam: a closure call starts on column x and allocates its partial
StartColumn(x) ==
    /\ phase = "par"
    /\ task[x].st = "pending"
    /\ Cardinality({c \in Columns : InProgress(c)}) < MaxWorkers
    /\ task' = [task EXCEPT ![x] = [st |-> "running", y |-> 0, buf |-> NewBuffer(bufs)]]
    /\ bufs' = Append(bufs, NewRgb8(1, sc.view.height))
    /\ hist' = [hist EXCEPT !.started[x] = @ + 1]
    /\ UNCHANGED <<sc, cam, phase, col, row, img, out, shadeVars, meshVars, probe>>

\* par_raytrace_cam: one round of the loop of the closure call on column x
ColumnPixel(x) ==
    /\ phase = "par"
    /\ InProgress(x) /\ task[x].y < sc.view.height
    /\ \E color \in {PixelColor(sc, sc.cameras[cam], x, task[x].y)} :
          IF color = Panic
          THEN /\ phase' = "panicked"
               /\ UNCHANGED <<task, bufs, hist>>
          ELSE /\ bufs' = [bufs EXCEPT ![task[x].buf] = PutPixel(@, 0, task[x].y, color[1])]
               /\ task' = [task EXCEPT ![x].y = @ + 1]
               /\ hist' = [hist EXCEPT !.drawn[task[x].buf][task[x].y] = Append(@, x)]
               /\ UNCHANGED phase
    /\ UNCHANGED <<sc, cam, col, row, img, out, shadeVars, meshVars, probe>>

\* par_raytrace_cam: the closure call on column x returns (partial, x)
ColumnReturn(x) ==
    /\ phase = "par"
    /\ InProgress(x) /\ task[x].y = sc.view.height
    /\ task' = [task EXCEPT ![x].st = "returned"]
    /\ UNCHANGED <<sc, cam, phase, col, row, img, bufs, out, hist, shadeVars, meshVars,
                   probe>>

\* par_raytrace_cam: collect() has every (partial, x)
Collect ==
    /\ phase = "par"
    /\ \A x \in Columns : task[x].st = "returned"
    /\ phase' = "gather"
    /\ UNCHANGED <<sc, cam, col, row, img, task, bufs, out, hist, shadeVars, meshVars,
                   probe>>

Copied == {hist.copied[i] : i \in 1..Len(hist.copied)}

\* par_raytrace_cam: one round of for_each: the partial of column x is copied
Gather(x) ==
    /\ phase = "gather"
    /\ x \notin Copied
    /\ out' = Replace(out, bufs[task[x].buf], x, 0)
    /\ hist' = [hist EXCEPT
          !.copied = Append(@, x),
          !.written = [p \in DOMAIN @ |->
                          IF p \in Replaced(out, bufs[task[x].buf], x, 0)
                          THEN @[p] + 1 ELSE @[p]]]
    /\ UNCHANGED <<sc, cam, phase, col, row, img, task, bufs, shadeVars, meshVars, probe>>

\* par_raytrace_cam returns its image
Finish ==
    /\ phase = "gather"
    /\ Copied = Columns
    /\ phase' = "done"
    /\ UNCHANGED <<sc, cam, col, row, img, task, bufs, out, hist, shadeVars, meshVars,
                   probe>>

NextRender ==
    \/ SeqPixel
    \/ \E x \in Columns : StartColumn(x)
    \/ \E x \in Columns : ColumnPixel(x)
    \/ \E x \in Columns : ColumnReturn(x)
    \/ Collect
    \/ \E x \in Columns : Gather(x)
    \/ Finish

SpecRender == InitRender /\ [][NextRender]_vars

(***************************************************************************)
(* Shape::intersect (shape/mod.rs) called once on a shape and a ray        *)
(***************************************************************************)
\* the coordinates of the ray origins run from -MaxCoord to MaxCoord
MaxCoord == 1

ShapeCatalogue ==
    { Sphere(V3(0, 0, 0), F(1), DefaultMaterial),
      Sphere(V3(0, 0, 3), F(2), DefaultMaterial),
      Sphere(V3(-3, 0, 3), F(3), DefaultMaterial),
      Plane(V3(0, -1, 0), V3(0, 1, 0), DefaultMaterial),
      Plane(V3(0, 0, 1), V3(0, 0, -1), DefaultMaterial),
      Plane(V3(0, 0, 1), <<0, 60, -80>>, DefaultMaterial),
      Triangle(V3(-1, -1, 0), V3(-1, 1, 0), V3(1, 1, 0), DefaultMaterial),
      Triangle(V3(0, -1, -1), V3(0, 1, 1), V3(0, 1, -1), DefaultMaterial),
      QuadMesh,
      WithShading(QuadMesh, "Smooth"),
      TetraMesh,
      WithShading(TetraMesh, "Smooth"),
      SheetsMesh,
      WithShading(SheetsMesh, "Smooth") }

Axes == {V3(1, 0, 0), V3(-1, 0, 0), V3(0, 1, 0), V3(0, -1, 0), V3(0, 0, 1), V3(0, 0, -1)}

RayCatalogue ==
    {NewRay(V3(x, y, z), d) :
        <<x, y, z>> \in (-MaxCoord..MaxCoord) \X (-MaxCoord..MaxCoord) \X (-MaxCoord..MaxCoord),
        d \in Axes}

NoScene == sc = <<>>

InitIntersect ==
    /\ probe \in [shape : ShapeCatalogue, ray : RayCatalogue, st : {"called"},
                  result : {None}]
    /\ NoScene /\ ShadeIdle /\ RenderIdle /\ MeshIdle

\* Shape::intersect returns
Intersect ==
    /\ probe.st = "called"
    /\ probe' = [probe EXCEPT !.st = "returned",
                              !.result = ShapeIntersect(probe.shape, probe.ray)]
    /\ UNCHANGED <<sc, shadeVars, renderVars, meshVars>>

NextIntersect == Intersect

SpecIntersect == InitIntersect /\ [][NextIntersect]_vars

(***************************************************************************)
(* TriangleMesh::transform (shape/mesh.rs) called on a mesh, up to         *)
(* MaxTransforms times in a row                                            *)
(***************************************************************************)
MaxTransforms == 2

Diagonal(x, y, z) ==
    << <<F(x), 0, 0, 0>>, <<0, F(y), 0, 0>>, <<0, 0, F(z), 0>>, <<0, 0, 0, Q>> >>

Translation(x, y, z) ==
    << <<Q, 0, 0, F(x)>>, <<0, Q, 0, F(y)>>, <<0, 0, Q, F(z)>>, <<0, 0, 0, Q>> >>

\* a quarter turn about the z axis
QuarterTurn ==
    << <<0, -Q, 0, 0>>, <<Q, 0, 0, 0>>, <<0, 0, Q, 0>>, <<0, 0, 0, Q>> >>

\* two equal rows
Sheared ==
    << <<Q, F(2), 0, Q>>, <<Q, F(2), 0, Q>>, <<0, 0, Q, 0>>, <<0, 0, 0, Q>> >>

\* x grows with y
Skew ==
    << <<Q, Q, 0, 0>>, <<0, Q, 0, 0>>, <<0, 0, Q, 0>>, <<0, 0, 0, Q>> >>

\* the matrices of the catalogue whose inverses are called for as well; the
\* entries of their inverses are multiples of 1 / Q
Undone == {Diagonal(2, 1, 2), Translation(1, 0, -1), QuarterTurn, Skew}

MatrixCatalogue ==
    { Diagonal(2, 2, 2), Diagonal(1, 2, 4), Diagonal(2, 1, 2), Translation(1, 0, -1),
      QuarterTurn, Skew,
      Diagonal(0, 0, 0), Diagonal(1, 0, 1), Sheared }
       \cup {Inverse(matrix)[1] : matrix \in Undone}

MeshCatalogue ==
    {QuadMesh, WithShading(QuadMesh, "Smooth"), TetraMesh, WithShading(TetraMesh, "Smooth")}

InitMesh ==
    /\ mesh \in MeshCatalogue
    /\ mres = [calls |-> 0, matrix |-> MatI, ok |-> TRUE, before |-> mesh,
               prev |-> [matrix |-> MatI, ok |-> TRUE, before |-> mesh]]
    /\ NoScene /\ ShadeIdle /\ RenderIdle /\ ProbeIdle

\* one call of TriangleMesh::transform, from its entry to its return
Transform(matrix) ==
    /\ mres.calls < MaxTransforms
    /\ \E r \in {MeshTransform(mesh, matrix)} :
          /\ mesh' = r.mesh
          /\ mres' = [calls |-> mres.calls + 1, matrix |-> matrix, ok |-> r.ok,
                      before |-> mesh,
                      prev |-> [matrix |-> mres.matrix, ok |-> mres.ok,
                                before |-> mres.before]]
    /\ UNCHANGED <<sc, shadeVars, renderVars, probe>>

NextMesh == \E matrix \in MatrixCatalogue : Transform(matrix)

SpecMesh == InitMesh /\ [][NextMesh]_vars

(***************************************************************************)
(* Texture lookups: a checker texture with a texture scale is sampled at   *)
(* texture coordinates, each lookup is one call of Texture::color.  probe  *)
(* holds the texture, the scale and the samples taken so far.              *)
(***************************************************************************)
MaxSamples == 2

TextureCatalogue ==
    {Checker(WHITE, BLACK), Checker(Color(100, 0, 0), Color(0, 0, 100)),
     CheckerNew(Color(0, 100, 0))}

ScaleCatalogue == {50, 100, 200, 400}

\* the coordinate (0.5 / s, 0.5 / s)
HalfCell(scale) == <<Div(50, scale), Div(50, scale)>>

Coordinates(scale) ==
    {<<u, v>> : u, v \in {-75, 0, 25, 75}} \cup {HalfCell(scale)}

InitTexture ==
    /\ probe \in [texture : TextureCatalogue, scale : ScaleCatalogue, seen : {<<>>}]
    /\ NoScene /\ ShadeIdle /\ RenderIdle /\ MeshIdle

\* Texture::color(&TextureCoord::new(uv, scale))
Sample(uv) ==
    /\ Len(probe.seen) < MaxSamples
    /\ probe' = [probe EXCEPT !.seen =
                   Append(@, [uv |-> uv,
                              color |-> TextureColor(probe.texture,
                                                     TextureCoord(uv, probe.scale))])]
    /\ UNCHANGED <<sc, shadeVars, renderVars, meshVars>>

NextTexture == \E uv \in Coordinates(probe.scale) : Sample(uv)

SpecTexture == InitTexture /\ [][NextTexture]_vars

(***************************************************************************)
(* Calls of Matrix4::inverse.  The matrices have a determinant that is 0   *)
(* or whose reciprocal is a multiple of 1 / Q: products of a lower         *)
(* triangular, a diagonal and an upper triangular matrix, next to the      *)
(* matrices the meshes are transformed with.  probe holds the matrix and   *)
(* the result.                                                             *)
(***************************************************************************)
MaxEntry == 1

Lower(a, b) ==
    << <<Q, 0, 0, 0>>, <<F(a), Q, 0, 0>>, <<F(b), F(a), Q, 0>>, <<Q, F(b), F(a), Q>> >>

Upper(c, t) ==
    << <<Q, F(c), F(t), Q>>, <<0, Q, F(c), F(t)>>, <<0, 0, Q, F(c)>>, <<0, 0, 0, Q>> >>

\* a matrix with whole entries and the determinant d
Dense(d, a, b, c, t) == MatMul(MatMul(Lower(a, b), Diagonal(d, 1, 1)), Upper(c, t))

DenseCatalogue ==
    {Dense(d, a, b, c, t) : d \in {-1, 0, 1, 2}, a \in -MaxEntry..MaxEntry,
                            b \in -MaxEntry..MaxEntry, c \in {0, 1}, t \in {0, 1}}

InverseCatalogue ==
    DenseCatalogue \cup Undone \cup {Diagonal(0, 0, 0), Diagonal(1, 0, 1), Sheared}

InitInverse ==
    /\ probe \in [matrix : InverseCatalogue, st : {"called"}, result : {None}]
    /\ NoScene /\ ShadeIdle /\ RenderIdle /\ MeshIdle

\* Matrix4::inverse returns
Invert ==
    /\ probe.st = "called"
    /\ probe' = [probe EXCEPT !.st = "returned", !.result = Inverse(probe.matrix)]
    /\ UNCHANGED <<sc, shadeVars, renderVars, meshVars>>

NextInverse == Invert

SpecInverse == InitInverse /\ [][NextInverse]_vars

(***************************************************************************)
(* A Transform under construction: the calls of the builder, in any order, *)
(* and build.  probe holds the builder t, the calls made so far, the       *)
(* builder as it was when the last call was made and what that call        *)
(* returned: a matrix for build, the builder itself (None here) for the    *)
(* others.                                                                 *)
(***************************************************************************)
MaxCalls == 3

Degrees == {90, 180}

Factors == {50, 200}

Offsets == {V3(1, 2, 3), V3(0, -1, 0)}

Call(op, arg) == [op |-> op, arg |-> arg]

InitBuilder ==
    /\ probe = [t |-> TransformNew, log |-> <<>>, before |-> TransformNew, ret |-> None]
    /\ NoScene /\ ShadeIdle /\ RenderIdle /\ MeshIdle

\* a call that changes the builder to t and returns it
Chained(t, call) ==
    /\ Len(probe.log) < MaxCalls
    /\ probe' = [t |-> t, log |-> Append(probe.log, call), before |-> probe.t,
                 ret |-> None]
    /\ UNCHANGED <<sc, shadeVars, renderVars, meshVars>>

RotateX(degrees) == Chained(TransformRotateX(probe.t, degrees), Call("rotate_x", degrees))

RotateY(degrees) == Chained(TransformRotateY(probe.t, degrees), Call("rotate_y", degrees))

RotateZ(degrees) == Chained(TransformRotateZ(probe.t, degrees), Call("rotate_z", degrees))

ScaleAll(val) == Chained(TransformScale(probe.t, val), Call("scale", val))

ScaleX(val) == Chained(TransformScaleAxis(probe.t, 1, val), Call("scale_x", val))

Translate(vec) == Chained(TransformTranslate(probe.t, vec), Call("translate", vec))

\* Transform::build, which takes &self
Build ==
    /\ probe.ret = None
    /\ probe' = [probe EXCEPT !.before = probe.t, !.ret = Some(TransformBuild(probe.t))]
    /\ UNCHANGED <<sc, shadeVars, renderVars, meshVars>>

NextBuilder ==
    \/ \E degrees \in Degrees : RotateX(degrees)
    \/ \E degrees \in Degrees : RotateY(degrees)
    \/ \E degrees \in Degrees : RotateZ(degrees)
    \/ \E val \in Factors : ScaleAll(val)
    \/ \E val \in Factors : ScaleX(val)
    \/ \E vec \in Offsets : Translate(vec)
    \/ Build

SpecBuilder == InitBuilder /\ [][NextBuilder]_vars

(***************************************************************************)
(* GeoMesh::from_str (geo.rs) called once on a text.  probe holds what     *)
(* Geo::from_str made of the text, None for a text that does not parse,    *)
(* and the outcome of the call.  GeoMesh::try_from (util.rs) and           *)
(* Ply::try_from (ply.rs) run the same two loops.                          *)
(***************************************************************************)
MaxIndex == 5

GeoFaces == {<<3>>, <<4>>, <<3, 3>>}

GeoPoints == << V3(0, 0, 0), V3(1, 0, 0), V3(0, 1, 0), V3(0, 0, 1) >>

GeoTex == << <<0, 0>>, <<Q, 0>>, <<0, Q>>, <<Q, Q>> >>

IndexLists == UNION {[1..n -> 0..3] : n \in 3..MaxIndex} \cup {<<0, 1, 2, 0, 2, 3>>}

GeoCatalogue ==
    {[faces |-> f, vertex_index |-> vi,
      vertices |-> SubSeq(GeoPoints, 1, nv), tex_coords |-> SubSeq(GeoTex, 1, nv)] :
        f \in GeoFaces, vi \in IndexLists, nv \in 3..4}

\* the vertices a face i of the face loop enters into normal_map
FaceKeys(geo, i) ==
    {geo.vertex_index[FaceStart(geo.faces, i) + j] : j \in 1..geo.faces[i]}

\* a slice index of face i out of range: vertex_index[face_start + 2],
\* geo.vertices[..] of the first three, vertex_index[face_start + j]
FaceOutOfRange(geo, i) ==
    LET st == FaceStart(geo.faces, i)
    IN  \/ st + 3 > Len(geo.vertex_index)
        \/ \E k \in 1..3 : geo.vertex_index[st + k] >= Len(geo.vertices)
        \/ st + geo.faces[i] > Len(geo.vertex_index)

\* Result<GeoMesh>, or the panic of an index out of range or of
\* expect("A vertex was never used"); of the mesh only its sizes are kept
GeoMeshFromStr(parsed) ==
    IF parsed = None THEN [kind |-> "Err", num_faces |-> 0, vertices |-> 0]
    ELSE LET geo == parsed[1]
             nf == Len(geo.faces)
             used == UNION {FaceKeys(geo, i) : i \in 1..nf}
         IN  IF \E i \in 1..nf : FaceOutOfRange(geo, i)
             THEN [kind |-> "panic", num_faces |-> 0, vertices |-> 0]
             ELSE IF \E v \in 0..(Len(geo.vertices) - 1) : v \notin used
             THEN [kind |-> "panic", num_faces |-> 0, vertices |-> 0]
             ELSE [kind |-> "Ok", num_faces |-> nf, vertices |-> Len(geo.vertices)]

InitGeo ==
    /\ probe \in [parsed : {None} \cup {Some(g) : g \in GeoCatalogue},
                  st : {"called"}, result : {None}]
    /\ NoScene /\ ShadeIdle /\ RenderIdle /\ MeshIdle

FromStr ==
    /\ probe.st = "called"
    /\ probe' = [probe EXCEPT !.st = "returned",
                              !.result = Some(GeoMeshFromStr(probe.parsed))]
    /\ UNCHANGED <<sc, shadeVars, renderVars, meshVars>>

NextGeo == FromStr

SpecGeo == InitGeo /\ [][NextGeo]_vars


(***************************************************************************)
(* triangle_intersect (shape/triangle.rs) called once on three points and  *)
(* a ray.  probe holds the points, the ray and the result.                 *)
(***************************************************************************)
TriangleCatalogue ==
    { << V3(-1, -1, 0), V3(-1, 1, 0), V3(1, 1, 0) >>,
      << V3(0, -1, -1), V3(0, 1, 1), V3(0, 1, -1) >>,
      << V3(-1, 0, -1), V3(1, 0, -1), V3(-1, 0, 1) >>,
      << V3(0, 0, 0), V3(0, 2, 0), V3(2, 0, 1) >> }

\* directions off the axes, as Ray::new takes them: not of length 1
Slanted == { V3(1, 0, 1), V3(0, -1, 1), V3(-1, 1, 0), V3(0, 1, -1), V3(1, 1, 1) }

TriangleRays ==
    RayCatalogue \cup
    {NewRay(V3(x, y, z), d) :
        <<x, y, z>> \in (-MaxCoord..MaxCoord) \X (-MaxCoord..MaxCoord) \X (-MaxCoord..MaxCoord),
        d \in Slanted}

InitTriangle ==
    /\ probe \in [points : TriangleCatalogue, ray : TriangleRays, st : {"called"},
                  result : {None}]
    /\ NoScene /\ ShadeIdle /\ RenderIdle /\ MeshIdle

\* triangle_intersect returns
TriangleTest ==
    /\ probe.st = "called"
    /\ probe' = [probe EXCEPT
          !.st = "returned",
          !.result = TriangleIntersectRaw(probe.points[1], probe.points[2],
                                          probe.points[3], probe.ray)]
    /\ UNCHANGED <<sc, shadeVars, renderVars, meshVars>>

NextTriangle == TriangleTest

SpecTriangle == InitTriangle /\ [][NextTriangle]_vars


(***************************************************************************)
(* From<GeoMesh> for TriangleMesh (shape/mesh.rs) called once on a         *)
(* GeoMesh that GeoMesh::from_str returned.  probe holds the description   *)
(* the GeoMesh was built from and the result.  From<Ply> runs the same     *)
(* loops over faces kept as lists.                                         *)
(***************************************************************************)
\* a pentagon in the plane z = 0, one face of five vertices
PentaGeo ==
    [faces |-> <<5>>,
     vertex_index |-> <<0, 1, 2, 3, 4>>,
     vertices |-> << V3(-1, -1, 0), V3(-1, 1, 0), V3(0, 2, 0), V3(1, 1, 0), V3(1, -1, 0) >>,
     tex_coords |-> << <<0, 0>>, <<0, Q>>, <<50, Q>>, <<Q, Q>>, <<Q, 0>> >>]

\* a square and a triangle on one of its sides, folded up
FoldedGeo ==
    [faces |-> <<4, 3>>,
     vertex_index |-> <<0, 1, 2, 3, 3, 2, 4>>,
     vertices |-> << V3(-1, -1, 0), V3(-1, 1, 0), V3(1, 1, 0), V3(1, -1, 0), V3(2, 0, 1) >>,
     tex_coords |-> << <<0, 0>>, <<0, Q>>, <<Q, Q>>, <<Q, 0>>, <<50, 50>> >>]

\* the faces have three different first vertices and no two faces have the
\* same vertices: no face normal and no sum of face normals is the zero vector
Sound(geo) ==
    /\ \A i \in 1..Len(geo.faces) :
          LET st == FaceStart(geo.faces, i)
          IN  Cardinality({geo.vertex_index[st + k] : k \in 1..3}) = 3
    /\ \A i, j \in 1..Len(geo.faces) : i # j => FaceKeys(geo, i) # FaceKeys(geo, j)

ConvertCatalogue ==
    {g \in GeoCatalogue : GeoMeshFromStr(Some(g)).kind = "Ok" /\ Sound(g)}
        \cup {QuadGeo, TetraGeo, SheetsGeo, PentaGeo, FoldedGeo}

\* geo.vertices[v1] or geo.vertices[v2] of the second pair of loops is out
\* of range
BeyondVertices(geo) ==
    \E i \in 1..Len(geo.faces) : \E v \in FaceKeys(geo, i) : v >= Len(geo.vertices)

\* Some(mesh), or the panic of an index out of range
TriangleMeshFrom(geo) ==
    IF BeyondVertices(geo) THEN Panic ELSE Some(TriangleMesh(GeoMesh(geo)))

InitConvert ==
    /\ probe \in [geo : ConvertCatalogue, st : {"called"}, result : {None}]
    /\ NoScene /\ ShadeIdle /\ RenderIdle /\ MeshIdle

\* TriangleMesh::from returns
Convert ==
    /\ probe.st = "called"
    /\ \E r \in {TriangleMeshFrom(probe.geo)} :
          probe' = [probe EXCEPT !.st = "returned", !.result = r]
    /\ UNCHANGED <<sc, shadeVars, renderVars, meshVars>>

NextConvert == Convert

SpecConvert == InitConvert /\ [][NextConvert]_vars


(***************************************************************************)
(* Texture::color of an image (material/texture.rs) called once.  probe    *)
(* holds the width and the height of the image, the texture coordinate     *)
(* and the result.  The pixel (x, y) of the image is written x + y * width.*)
(* A coordinate too large for the product with the bound to fit an i32 is  *)
(* written Huge; it stands for a finite f64.                               *)
(***************************************************************************)
MaxImage == 3

Huge == INFINITY

I32_MAX == 2147483647

I32_MIN == -2147483647 - 1

\* f64 * f64 with an operand that may be Huge or -Huge
ScaledBy(v, k) ==
    IF v = Huge \/ v = -Huge
    THEN (IF k = 0 THEN 0 ELSE IF (v > 0) = (k > 0) THEN Huge ELSE -Huge)
    ELSE Mul(v, k)

\* (v * bound as f64) as i32: the fraction is dropped, the cast saturates
AsI32(v, bound) ==
    IF v = Huge THEN I32_MAX
    ELSE IF v = -Huge THEN I32_MIN
    ELSE TDiv(v * bound, Q)

\* the % of i32: the remainder has the sign of the dividend
Rem(a, b) ==
    IF a >= 0 \/ a % b = 0 THEN a % b ELSE (a % b) - b

\* i32 as u32: a negative number becomes one above every i32, written INFINITY
AsU32(x) == IF x >= 0 THEN x ELSE INFINITY

\* a faulty variant: a remainder below 0 is not brought back into the image
WrapVUnsigned(v, bound) == AsU32(Rem(AsI32(v, bound), bound))

\* TextureCoord::wrap_v
WrapV(v, bound) ==
    LET wrapped == Rem(AsI32(v, bound), bound)
    IN  IF wrapped < 0 THEN AsU32(wrapped + bound) ELSE AsU32(wrapped)

\* TextureCoord::scale_wrap
ScaleWrap(coord, scale, max_x, max_y) ==
    << WrapV(ScaledBy(coord.uv[1], scale), max_x),
       WrapV(ScaledBy(coord.uv[2], scale), max_y) >>

\* GenericImageView::get_pixel: the pixel, or the panic of a lookup out of bounds
GetPixel(width, height, x, y) ==
    IF x < width /\ y < height THEN Some(x + y * width) ELSE Panic

\* Texture::color, the Image arm
ImageColor(width, height, coord) ==
    LET xy == ScaleWrap(coord, coord.scale, width, height)
    IN  [xy |-> xy, pixel |-> GetPixel(width, height, xy[1], xy[2])]

ImageCoordinates ==
    {-Huge, -250, -125, -100, -50, -34, -1, 0, 1, 33, 50, 99, 100, 150, 275, Huge}

ImageScales == {-100, 50, 100, 300}

InitImage ==
    /\ probe \in [width : 1..MaxImage, height : 1..MaxImage,
                  coord : {TextureCoord(<<u, v>>, s) :
                              u \in ImageCoordinates, v \in ImageCoordinates,
                              s \in ImageScales},
                  st : {"called"}, result : {None}]
    /\ NoScene /\ ShadeIdle /\ RenderIdle /\ MeshIdle

\* Texture::color returns
Lookup ==
    /\ probe.st = "called"
    /\ probe' = [probe EXCEPT
          !.st = "returned",
          !.result = Some(ImageColor(probe.width, probe.height, probe.coord))]
    /\ UNCHANGED <<sc, shadeVars, renderVars, meshVars>>

NextImage == Lookup

SpecImage == InitImage /\ [][NextImage]_vars


(***************************************************************************)
(* Camera::new (camera.rs) called once on an origin and a point to look    *)
(* at, different from the origin.  probe holds the two points and the      *)
(* camera returned.                                                        *)
(***************************************************************************)
Grid ==
    {V3(x, y, z) :
        <<x, y, z>> \in (-MaxCoord..MaxCoord) \X (-MaxCoord..MaxCoord) \X (-MaxCoord..MaxCoord)}

\* the arguments of Camera::default next to those of the grid
Sights ==
    {<<o, l>> \in Grid \X Grid : o # l} \cup {<<V3(0, 0, -20), V3(0, 0, 0)>>}

InitCamera ==
    /\ probe \in [sight : Sights, st : {"called"}, result : {None}]
    /\ NoScene /\ ShadeIdle /\ RenderIdle /\ MeshIdle

\* Camera::new returns
CameraNew ==
    /\ probe.st = "called"
    /\ probe' = [probe EXCEPT
          !.st = "returned",
          !.result = Some(Camera(probe.sight[1], probe.sight[2], 70))]
    /\ UNCHANGED <<sc, shadeVars, renderVars, meshVars>>

NextCamera == CameraNew

SpecCamera == InitCamera /\ [][NextCamera]_vars


(***************************************************************************)
(* Properties of the recursion                                             *)
(***************************************************************************)
\* a call of color_for has just returned: last names its ray
Returned == ret # None /\ ret # Panic

\* C1: a call of color_for on a ray whose generation is >= max_generations and
\* that hits a shape returns exactly black, whatever the surface and the lights
C1_TruncatedIsBlack ==
    (/\ Returned
     /\ last.ray.generation >= sc.max_generations
     /\ GetClosestIntersection(sc, last.ray) # None)
    => ret = Some(BLACK)

\* a primary ray hit the fully reflective sphere with max_generations = 0
C1_Witness ==
    /\ Returned /\ last.op = "truncated"
    /\ sc.max_generations = 0
    /\ last.obj.kind = "Sphere" /\ last.obj.material.surface = Reflective(Q)
    /\ ret = Some(BLACK)

\* C2: direct illumination is evaluated only for rays of generation below
\* max_generations: every frame inside Scene::diffuse, and every light term
\* it computes, belongs to a ray with generation < max_generations
C2_DiffuseBelowBound ==
    /\ \A i \in 1..Len(stack) :
          stack[i].pc = "diffuse" => stack[i].ray.generation < sc.max_generations
    /\ last.op = "light" => last.ray.generation < sc.max_generations

\* a light term was computed for a ray of the last generation allowed
C2_Witness ==
    /\ last.op = "light"
    /\ sc.max_generations >= 2
    /\ last.ray.generation = sc.max_generations - 1

\* C3: color_for terminates: a recursive call is on a ray one generation above
\* its parent's, so the calls in progress have generations 0, 1, 2, ... and are
\* at most max_generations + 1, and every call runs to completion
C3_Terminates ==
    /\ [](\A i \in 1..Len(stack) : stack[i].ray.generation = i - 1)
    /\ [](Len(stack) <= sc.max_generations + 1)
    /\ <>Done

\* the deepest call allowed has just been cut by the generation bound
C3_Witness ==
    /\ last.op = "truncated"
    /\ sc.max_generations >= 2
    /\ Len(stack) = sc.max_generations

\* the shapes of the scene that report an intersection with the ray
Hitting(ray) == {i \in 1..Len(sc.shapes) : ShapeIntersect(sc.shapes[i], ray) # None}

\* C6: color_for takes the background branch, and returns the background
\* colour, exactly when no shape of the scene reports an intersection with its
\* ray; otherwise it goes on to color_at with an intersection some shape
\* reports, whose distance is at most the distance every shape reports
C6_BackgroundIffNoHit ==
    /\ last.op = "background" =>
          /\ Hitting(last.ray) = {}
          /\ ret = Some(sc.background)
    /\ last.op = "hit" =>
          /\ Hitting(last.ray) # {}
          /\ \E i \in Hitting(last.ray) : Top.isect = ShapeIntersect(sc.shapes[i], last.ray)
          /\ \A i \in Hitting(last.ray) :
                Top.isect[1].distance <= ShapeIntersect(sc.shapes[i], last.ray)[1].distance

\* a secondary ray met two shapes at different distances, the nearer one not
\* being the last of the scene
C6_Witness ==
    /\ last.op = "hit"
    /\ last.ray.generation > 0
    /\ \E i, j \in Hitting(last.ray) :
          /\ i < j
          /\ ShapeIntersect(sc.shapes[i], last.ray)[1].distance
                < ShapeIntersect(sc.shapes[j], last.ray)[1].distance

(***************************************************************************)
(* Properties of the surfaces.  A state whose last step is the return of   *)
(* Scene::color_at past the truncation test names the ray, the shape, the  *)
(* hit point, the normal and the texture coordinate; ret is what it        *)
(* returned.                                                               *)
(***************************************************************************)
LastSurface == last.obj.material.surface

\* the direct illumination at the last hit
LastDirect == Diffuse(sc, last.obj, last.point, last.normal, last.tex)

\* the reflected ray at the last hit
LastReflected == Reflect(last.ray, last.normal, last.point, RAY_OFFSET)

\* the frame i of the stack waits for a ray it spawned
Waiting(i) == i < Len(stack)

\* C11: for a hit on a Reflective(k) surface color_at returns
\* direct x (1 - k) + k x color_for(r), r being the reflected ray, one
\* generation above the ray that hit; for a hit on a Diffuse surface it returns
\* the direct illumination and no call of color_for is made from it
C11_ReflectiveMix ==
    /\ (last.op = "shaded" /\ LastSurface.kind = "Reflective") =>
          /\ LastReflected.generation = last.ray.generation + 1
          /\ ret = Some(CAdd(CScale(LastDirect, Q - LastSurface.k),
                             CScale(ColorFor(sc, LastReflected)[1], LastSurface.k)))
    /\ (last.op = "shaded" /\ LastSurface.kind = "Diffuse") => ret = Some(LastDirect)
    /\ \A i \in 1..Len(stack) :
          Waiting(i) =>
             /\ stack[i].isect[1].obj.material.surface.kind # "Diffuse"
             /\ stack[i].isect[1].obj.material.surface.kind = "Reflective" =>
                   stack[i + 1].ray = Reflect(stack[i].ray, stack[i].normal,
                                              stack[i].point, RAY_OFFSET)

\* a half mirror in the light returned: both terms of the sum count
C11_Witness ==
    /\ last.op = "shaded" /\ LastSurface.kind = "Reflective"
    /\ LastSurface.k > 0 /\ LastSurface.k < Q
    /\ LastDirect # BLACK
    /\ ColorFor(sc, LastReflected)[1] # BLACK
    /\ Returned

\* the refracted ray at the last hit, if Ray::refract yields one
LastRefracted == Refract(last.ray, last.normal, last.point, RAY_OFFSET, LastSurface.index)

LastKr == Fresnel(last.ray, last.normal, LastSurface.index)

\* reflectedColor x transparency x surfaceColor at the last hit
LastAllReflected ==
    CMul(CScale(ColorFor(sc, LastReflected)[1], LastSurface.transparency),
         MaterialColor(last.obj.material, last.tex))

\* C12: for a hit on a Refractive surface a refracted ray is followed only when
\* kr < 1 and Ray::refract yields a ray; in every other case the colour is
\* reflectedColor x transparency x surfaceColor
C12_NoRefractionIsAllReflection ==
    /\ (/\ last.op = "shaded" /\ LastSurface.kind = "Refractive"
        /\ ~(LastKr < Q /\ LastRefracted # None)) => ret = Some(LastAllReflected)
    /\ \A i \in 1..Len(stack) :
          (Waiting(i) /\ stack[i].pc = "refract_wait") =>
             /\ stack[i].kr < Q
             /\ Some(stack[i + 1].ray) = Refract(stack[i].ray, stack[i].normal, stack[i].point,
                                                 RAY_OFFSET, stack[i].isect[1].obj.material.surface.index)

\* what the code returns when kr < 1 and Ray::refract yields no ray: the
\* reflected colour weighted by kr
C12_KeepsKr ==
    (/\ last.op = "shaded" /\ LastSurface.kind = "Refractive"
     /\ LastKr < Q /\ LastRefracted = None) =>
        ret = Some(CMul(CScale(CScale(ColorFor(sc, LastReflected)[1], LastKr),
                               LastSurface.transparency),
                        MaterialColor(last.obj.material, last.tex)))

\* the rays of the frames both stacks hold are the same
ParentsKept ==
    \A i \in 1..Len(stack) : i <= Len(stack') => stack'[i].ray = stack[i].ray

\* the ray of frame i was made by Ray::reflect or Ray::refract from the ray of
\* the frame below it, at the hit the frame below holds
Spawned(i) ==
    LET parent == stack[i - 1]
    IN  \/ stack[i].ray = Reflect(parent.ray, parent.normal, parent.point, RAY_OFFSET)
        \/ /\ parent.isect[1].obj.material.surface.kind = "Refractive"
           /\ Some(stack[i].ray) = Refract(parent.ray, parent.normal, parent.point, RAY_OFFSET,
                                           parent.isect[1].obj.material.surface.index)

\* C18: the ray at the bottom of the call stack is a primary ray and has
\* generation 0; the ray of every other frame comes from Ray::reflect or
\* Ray::refract applied to the ray below it and has that ray's generation plus
\* one, so that the generation of a ray is the number of bounces behind it and
\* never decreases along a chain; the parent ray is left as it was
C18_GenerationCountsBounces ==
    /\ [](\A i \in 1..Len(stack) :
            /\ stack[i].ray.generation = i - 1
            /\ i = 1 => stack[i].ray \in PrimaryRays(sc)
            /\ i > 1 => /\ Spawned(i)
                        /\ stack[i].ray.generation = stack[i - 1].ray.generation + 1)
    /\ [][ParentsKept]_vars

\* a chain of three rays whose last link is a refracted ray
C18_Witness ==
    /\ Len(stack) = 3
    /\ stack[2].isect # None
    /\ stack[2].isect[1].obj.material.surface.kind = "Refractive"
    /\ Some(stack[3].ray) = Refract(stack[2].ray, stack[2].normal, stack[2].point, RAY_OFFSET,
                                    stack[2].isect[1].obj.material.surface.index)

(***************************************************************************)
(* Properties of the direct illumination.  A state whose last step is a    *)
(* round of the loop of Scene::diffuse names the light, the hit point, the *)
(* normal and the term the round added.                                    *)
(***************************************************************************)
LastLight == sc.lights[last.light]

\* the nearest intersection along the shadow ray of the last round
LastShadowHit ==
    GetClosestIntersection(sc, ShadowRay(LastLight, last.point, last.normal))

\* the term of the last round had nothing stood in the way
LastFullTerm == LightTermFor(last.obj, last.point, last.normal, last.tex, LastLight, None)

\* the shadow ray of the last round meets a shape nearer than the light
LastBlocked ==
    /\ LastShadowHit # None
    /\ LastShadowHit[1].distance < LightDistance(LastLight, last.point)

\* C9: a light adds nothing when the nearest intersection along the shadow
\* ray is strictly nearer than the light, and its full term otherwise; a
\* directional light adds nothing whenever the shadow ray meets a shape
C9_ShadowTest ==
    last.op = "light" =>
       /\ LastBlocked => last.color = BLACK
       /\ ~LastBlocked => last.color = LastFullTerm
       /\ (LastLight.kind = "Directional" /\ LastShadowHit # None) => last.color = BLACK

\* a point light that would have lit the point is hidden by a shape
C9_Witness ==
    /\ last.op = "light"
    /\ LastLight.kind = "Point"
    /\ LastBlocked
    /\ LastFullTerm # BLACK
    /\ last.color = BLACK

\* the cosine of the last round: normal . lightDirection
LastCosine == Dot(last.normal, LightDirectionFrom(LastLight, last.point))

\* the scene is one sphere under one point light
SphereUnderLight ==
    /\ Len(sc.shapes) = 1 /\ sc.shapes[1].kind = "Sphere"
    /\ Len(sc.lights) = 1 /\ sc.lights[1].kind = "Point"

\* the point of the sphere nearest the light (k = Q) or farthest from it (k = -Q)
Pole(k) ==
    VAdd(sc.shapes[1].center,
         VScale(Normalize(VSub(sc.lights[1].location, sc.shapes[1].center)),
                Mul(k, sc.shapes[1].radius)))

\* C10: a light with normal . lightDirection <= 0 adds exactly nothing; so on
\* a diffuse sphere under one point light the point nearest the light gets
\* light and the point farthest from it gets none
C10_BackFacingIsDark ==
    last.op = "light" =>
       /\ LastCosine <= 0 => last.color = BLACK
       /\ (SphereUnderLight /\ last.point = Pole(Q)) =>
             last.color.r + last.color.g + last.color.b > 0
       /\ (SphereUnderLight /\ last.point = Pole(-Q)) =>
             /\ LastCosine <= 0
             /\ last.color = BLACK

\* a point in full view of the light whose normal leans away from it
C10_Witness ==
    /\ last.op = "light"
    /\ LastCosine < 0
    /\ ~LastBlocked /\ LastShadowHit = None
    /\ LightIntensityAt(LastLight, last.point) > 0
    /\ last.color = BLACK

(***************************************************************************)
(* Properties of the shapes                                                *)
(***************************************************************************)
\* C7: whatever the shape and the ray, Shape::intersect returns none or an
\* intersection whose distance is strictly positive
C7_StrictlyPositive ==
    (probe.st = "returned" /\ probe.result # None) => probe.result[1].distance > 0

\* the distances Shape::intersect does rule out: the negative ones
C7_NeverNegative ==
    (probe.st = "returned" /\ probe.result # None) => probe.result[1].distance >= 0

\* C8: TriangleMesh::transform called with a matrix of determinant 0 returns
\* an error and leaves every field of the mesh as it was: the vertices, the
\* bounding box, the cached edges and the two matrices
C8_SingularLeavesMesh ==
    (mres.calls > 0 /\ Det(mres.matrix) = 0) =>
        /\ ~mres.ok
        /\ mesh = mres.before

\* a mesh that an earlier call has moved was then given a singular matrix
C8_Witness ==
    /\ mres.calls = 2
    /\ Det(mres.matrix) = 0
    /\ ~mres.ok
    /\ mesh.otw # MatI /\ mesh.otw # mres.matrix

\* the positions of the vertices of a mesh
Positions(m) == [k \in 1..Len(m.vertices) |-> m.vertices[k].point]

\* the cached edge vectors of a mesh
Edges(m) == [k \in 1..Len(m.triangles) |-> <<m.triangles[k].v0v1, m.triangles[k].v0v2>>]

\* the last two calls were transform(M) and transform(inverse(M)), M invertible
RoundTrip ==
    /\ mres.calls >= 2
    /\ mres.prev.ok
    /\ Inverse(mres.prev.matrix) = Some(mres.matrix)

\* C16: transform(M) followed by transform(inverse(M)), M invertible, restores
\* the position of every vertex, the bounding box and the cached edge vectors
C16_RoundTripRestores ==
    RoundTrip =>
        /\ mres.ok
        /\ Positions(mesh) = Positions(mres.prev.before)
        /\ mesh.bounding_box = mres.prev.before.bounding_box
        /\ Edges(mesh) = Edges(mres.prev.before)

\* a round trip through a mesh that differs from the restored one in its
\* vertices, its box and its edges
C16_Witness ==
    /\ RoundTrip /\ mres.ok
    /\ Positions(mres.before) # Positions(mesh)
    /\ mres.before.bounding_box # mesh.bounding_box
    /\ Edges(mres.before) # Edges(mesh)

\* the bounds of the box are reached on axis i and no vertex lies beyond them
TightOn(i) ==
    /\ \A k \in 1..Len(mesh.vertices) :
          /\ mesh.bounding_box.min[i] <= mesh.vertices[k].point[i]
          /\ mesh.vertices[k].point[i] <= mesh.bounding_box.max[i]
    /\ \E k \in 1..Len(mesh.vertices) : mesh.bounding_box.min[i] = mesh.vertices[k].point[i]
    /\ \E k \in 1..Len(mesh.vertices) : mesh.bounding_box.max[i] = mesh.vertices[k].point[i]

\* C17: after the construction of a mesh and after any sequence of transforms
\* the bounding box is tight: on every axis its minimum and its maximum are
\* those of the current vertex positions
C17_BoxIsTight == \A i \in 1..3 : TightOn(i)

\* two successful transforms in a row, each of which moved the box, the last
\* one to the positive side of an axis
C17_Witness ==
    /\ mres.calls >= 2 /\ mres.ok /\ mres.prev.ok
    /\ mesh.bounding_box # mres.before.bounding_box
    /\ mres.before.bounding_box # mres.prev.before.bounding_box
    /\ \E i \in 1..3 : mesh.bounding_box.min[i] > 0

(***************************************************************************)
(* Properties of the renderer                                              *)
(***************************************************************************)
\* C4: the image par_raytrace_cam returns equals, pixel for pixel, the image
\* raytrace_cam returns for the same scene and camera, whatever the schedule of
\* the column tasks and the order in which the partial images are copied
C4_ParEqualsSeq == phase = "done" => out = img

\* a render is done whose partial images were copied out of column order and
\* whose image is not the same in every column
C4_Witness ==
    /\ phase = "done"
    /\ Len(hist.copied) >= 2 /\ hist.copied[1] > hist.copied[2]
    /\ \E y \in Rows : img[<<0, y>>] # img[<<1, y>>]

\* C5: every column is rendered by exactly one closure call, which writes only
\* the partial image it allocated, each pixel of it once; the gather copies the
\* partial of column x to column x of the output once, so every pixel of the
\* output is written exactly once
C5_ColumnsPrivate ==
    /\ \A x \in Columns : hist.started[x] = IF task[x].st = "pending" THEN 0 ELSE 1
    /\ phase \in {"gather", "done"} => \A x \in Columns : hist.started[x] = 1
    /\ \A x1, x2 \in Columns :
          (x1 # x2 /\ task[x1].st # "pending" /\ task[x2].st # "pending")
          => task[x1].buf # task[x2].buf
    /\ \A b \in 1..Len(bufs) : \A y \in Rows :
          /\ Len(hist.drawn[b][y]) <= 1
          /\ \A i \in 1..Len(hist.drawn[b][y]) : task[hist.drawn[b][y][i]].buf = b
    /\ \A x \in Columns : \A y \in Rows :
          task[x].st = "returned" => hist.drawn[task[x].buf][y] = <<x>>
    /\ \A i, j \in 1..Len(hist.copied) : hist.copied[i] = hist.copied[j] => i = j
    /\ \A p \in Columns \X Rows : hist.written[p] = IF p[1] \in Copied THEN 1 ELSE 0
    /\ phase = "done" =>
          \A p \in Columns \X Rows :
             /\ hist.written[p] = 1
             /\ out[p] = bufs[task[p[1]].buf][<<0, p[2]>>]

\* two closure calls are in progress at once and each has drawn a pixel
C5_Witness ==
    \E x1, x2 \in Columns :
       /\ x1 # x2
       /\ InProgress(x1) /\ task[x1].y > 0
       /\ InProgress(x2) /\ task[x2].y > 0

(***************************************************************************)
(* Properties of Sphere::intersect and Plane::intersect, under             *)
(* SpecIntersect.  The ray is O + t D with D of length 1; for a sphere of  *)
(* centre C and radius r the distances of its points on the sphere are the *)
(* roots b + sqrt(del) and b - sqrt(del), b = -(D . (O - C)) and           *)
(* del = b^2 - |O - C|^2 + r^2.                                            *)
(***************************************************************************)
OnSphere == probe.st = "returned" /\ probe.shape.kind = "Sphere"

\* O - C
ProbePart == VSub(probe.ray.origin, probe.shape.center)

ProbeB == -Dot(probe.ray.direction, ProbePart)

ProbeDel ==
    Mul(ProbeB, ProbeB) - Mul(Magnitude(ProbePart), Magnitude(ProbePart))
        + Mul(probe.shape.radius, probe.shape.radius)

ProbeRoots == {ProbeB + Sqrt(ProbeDel), ProbeB - Sqrt(ProbeDel)}

\* the origin is outside the sphere and the ray points at its centre
AimedAtCentre ==
    /\ Magnitude(ProbePart) > probe.shape.radius
    /\ probe.ray.direction = Normalize(VNeg(ProbePart))

OriginInside == Magnitude(ProbePart) < probe.shape.radius

C14_TangentCase == OnSphere /\ ProbeDel = 0 /\ ProbeB > 0 /\ probe.result # None

C14_InsideCase == OnSphere /\ OriginInside /\ probe.result # None

C14_BehindCase == OnSphere /\ ProbeDel > 0 /\ probe.result = None

C14_AimedCase == OnSphere /\ AimedAtCentre /\ probe.result # None

OnPlane == probe.st = "returned" /\ probe.shape.kind = "Plane"

\* direction . (-normal)
ProbeDenominator == Dot(probe.ray.direction, VNeg(probe.shape.normal))

\* (origin - point) . normal
ProbeHeight == Dot(VSub(probe.ray.origin, probe.shape.point), probe.shape.normal)

\* C15: Plane::intersect returns none for a ray perpendicular to the normal,
\* for direction . (-normal) below 1e-6 and for a negative computed distance;
\* otherwise it returns the distance
\* (origin - point) . normal / (direction . (-normal))
C15_PlaneDistance ==
    OnPlane =>
        /\ ProbeDenominator = 0 => probe.result = None
        /\ ProbeDenominator < PLANE_EPS => probe.result = None
        /\ (ProbeDenominator >= PLANE_EPS /\ Div(ProbeHeight, ProbeDenominator) < 0) =>
              probe.result = None
        /\ (ProbeDenominator >= PLANE_EPS /\ Div(ProbeHeight, ProbeDenominator) >= 0) =>
              probe.result = Some(Intersection(Div(ProbeHeight, ProbeDenominator), probe.shape))

\* a ray that meets a tilted plane ahead of its origin
C15_Witness ==
    /\ OnPlane /\ probe.result # None
    /\ ProbeDenominator > 0 /\ ProbeDenominator < Q
    /\ probe.result[1].distance > 0

\* the cases of C15 without a hit, each of them reachable: a ray along the
\* plane, a ray that leaves the front of the plane, a plane behind the origin
C15_ParallelCase == OnPlane /\ ProbeDenominator = 0 /\ probe.result = None

C15_AwayCase == OnPlane /\ ProbeDenominator < 0 /\ probe.result = None

C15_BehindCase ==
    /\ OnPlane /\ ProbeDenominator >= PLANE_EPS
    /\ Div(ProbeHeight, ProbeDenominator) < 0 /\ probe.result = None

(***************************************************************************)
(* Properties of Matrix4::inverse, under SpecInverse.                      *)
(***************************************************************************)
\* C20: Matrix4::inverse returns none exactly when Matrix4::det of the matrix
\* is zero; otherwise it returns a matrix B with A . B the identity; for a
\* matrix without an inverse it does not return the identity
C20_InverseIffDet ==
    probe.st = "returned" =>
        /\ probe.result = None <=> Det(probe.matrix) = 0
        /\ probe.result # None => MatMul(probe.matrix, probe.result[1]) = MatI
        /\ Det(probe.matrix) = 0 => probe.result # Some(MatI)

\* an inverse that is neither the matrix itself nor its transpose, of a matrix
\* with a last column and a determinant other than 1
C20_Witness ==
    /\ probe.st = "returned" /\ probe.result # None
    /\ Det(probe.matrix) \notin {0, Q}
    /\ probe.matrix[1][4] # 0
    /\ probe.result[1] # probe.matrix
    /\ probe.result[1] # Transpose(probe.matrix)

\* a matrix without an inverse none of whose rows is zero
C20_SingularCase ==
    /\ probe.st = "returned" /\ probe.result = None
    /\ \A i \in 1..4 : \E j \in 1..4 : probe.matrix[i][j] # 0

(***************************************************************************)
(* Properties of the Transform builder, under SpecBuilder.                 *)
(***************************************************************************)
IsRotate(call) == call.op \in {"rotate_x", "rotate_y", "rotate_z"}

IsScale(call) == call.op \in {"scale", "scale_x"}

IsTranslate(call) == call.op = "translate"

\* the rotation a call of rotate_x, rotate_y or rotate_z stands for
RotationOf(call) ==
    CASE call.op = "rotate_x" -> RotationX(call.arg)
      [] call.op = "rotate_y" -> RotationY(call.arg)
      [] call.op = "rotate_z" -> RotationZ(call.arg)

\* the factors per axis after the first k of the scale calls
RECURSIVE ScaleOf(_, _)
ScaleOf(scales, k) ==
    IF k = 0 THEN <<Q, Q, Q>>
    ELSE IF scales[k].op = "scale" THEN <<scales[k].arg, scales[k].arg, scales[k].arg>>
    ELSE [ScaleOf(scales, k - 1) EXCEPT ![1] = scales[k].arg]

\* the offset of the last translate call
OffsetOf(translates) ==
    IF translates = <<>> THEN <<0, 0, 0>> ELSE translates[Len(translates)].arg

\* R_k . ... . R_1 . S, the rotations taken one by one in the order of rotates
RECURSIVE RotatedScale(_, _, _)
RotatedScale(rotates, k, S) ==
    IF k = 0 THEN S
    ELSE MatMul(RotationOf(rotates[k]), RotatedScale(rotates, k - 1, S))

\* the matrix the claim describes, from the rotate calls, the scale calls and
\* the translate calls, each kind in its own order
Composed(rotates, scales, translates) ==
    LET f == ScaleOf(scales, Len(scales))
        S == << <<f[1], 0, 0, 0>>, <<0, f[2], 0, 0>>, <<0, 0, f[3], 0>>, <<0, 0, 0, Q>> >>
        r == RotatedScale(rotates, Len(rotates), S)
        o == OffsetOf(translates)
    IN  << <<r[1][1], r[1][2], r[1][3], o[1]>>,
           <<r[2][1], r[2][2], r[2][3], o[2]>>,
           <<r[3][1], r[3][2], r[3][3], o[3]>>,
           r[4] >>

\* a point scaled, then turned by the rotations one after the other, then moved
RECURSIVE Turned(_, _, _)
Turned(rotates, k, p) ==
    IF k = 0 THEN p
    ELSE CHOOSE q \in {MatVec(RotationOf(rotates[k]), v) : v \in {Turned(rotates, k - 1, p)}} : TRUE

Applied(rotates, scales, translates, p) ==
    LET f == ScaleOf(scales, Len(scales))
    IN  VAdd(Turned(rotates, Len(rotates), <<Mul(f[1], p[1]), Mul(f[2], p[2]), Mul(f[3], p[3])>>),
             OffsetOf(translates))

Corners == {V3(1, 0, 0), V3(0, 1, 0), V3(0, 0, 1), V3(1, 2, 3)}

\* C19: Transform::build returns R_n . ... . R_1 . S with the translation in
\* the last column: a point is scaled, then turned by the rotations in the
\* order of the rotate_* calls, then translated; the matrix is determined by the
\* rotate calls in their order, the scale calls and the translate calls,
\* wherever the latter were placed among the former; build leaves the builder
\* as it was
C19_BuildComposes ==
    probe.ret # None =>
        LET rotates == SelectSeq(probe.log, IsRotate)
            scales == SelectSeq(probe.log, IsScale)
            translates == SelectSeq(probe.log, IsTranslate)
        IN  /\ probe.ret = Some(Composed(rotates, scales, translates))
            /\ \A p \in Corners :
                  MatPoint(probe.ret[1], p) = Applied(rotates, scales, translates, p)
            /\ probe.t = probe.before

\* the order of two calls switched
Switched(log, i, j) == [log EXCEPT ![i] = log[j], ![j] = log[i]]

\* a builder with two rotations about different axes, a scale between them and
\* a translation: the two rotations the other way round build another matrix
C19_Witness ==
    /\ probe.ret # None
    /\ Len(probe.log) = 3
    /\ IsRotate(probe.log[1]) /\ IsScale(probe.log[2]) /\ IsRotate(probe.log[3])
    /\ LET switched == Switched(probe.log, 1, 3)
       IN  probe.ret # Some(Composed(SelectSeq(switched, IsRotate),
                                     SelectSeq(switched, IsScale),
                                     SelectSeq(switched, IsTranslate)))

(***************************************************************************)
(* Properties of the textures, under SpecTexture.                          *)
(***************************************************************************)
\* the colours sampled so far at the coordinate uv
SeenAt(uv) == {probe.seen[i].color : i \in {j \in 1..Len(probe.seen) : probe.seen[j].uv = uv}}

\* C13: a checker texture with two distinct colours and a positive scale s,
\* sampled at (0, 0) and at (0.5 / s, 0.5 / s), yields its two different colours
C13_DiagonalDiffers ==
    (SeenAt(<<0, 0>>) # {} /\ SeenAt(HalfCell(probe.scale)) # {}) =>
        SeenAt(<<0, 0>>) \cup SeenAt(HalfCell(probe.scale))
            = {probe.texture.primary, probe.texture.secondary}

\* what the code does instead: a coordinate on the diagonal u = v gets the
\* secondary colour, whatever the scale
C13_DiagonalIsSecondary ==
    \A i \in 1..Len(probe.seen) :
        probe.seen[i].uv[1] = probe.seen[i].uv[2] =>
            probe.seen[i].color = probe.texture.secondary

(***************************************************************************)
(* Properties of GeoMesh::from_str, under SpecGeo.                         *)
(***************************************************************************)
\* the face list and the vertex-index list disagree in length
LengthsDisagree(geo) == SumTo(geo.faces, Len(geo.faces)) # Len(geo.vertex_index)

\* some vertex is referenced by no face
Unreferenced(geo) ==
    \E v \in 0..(Len(geo.vertices) - 1) :
        \A k \in 1..Len(geo.vertex_index) : geo.vertex_index[k] # v

Malformed(geo) == LengthsDisagree(geo) \/ Unreferenced(geo)

\* C21: GeoMesh::from_str returns an error, and no mesh, for a description
\* whose face list and vertex-index list disagree in length or one of whose
\* vertices is referenced by no face
C21_MalformedIsError ==
    (probe.st = "returned" /\ probe.parsed # None /\ Malformed(probe.parsed[1]))
        => probe.result[1].kind = "Err"

\* a text that does not parse is the one case that is reported as an error
C21_OnlyParseErrors ==
    probe.st = "returned" => (probe.result[1].kind = "Err" <=> probe.parsed = None)


(***************************************************************************)
(* Properties of the hits of a mesh in Scene::color_at, under Spec.        *)
(***************************************************************************)
\* the intersection carries a location, a normal and a texture coordinate
Precomputed(isect) ==
    isect.location # None /\ isect.normal # None /\ isect.tex_coord # None

\* the hits of a mesh among the calls in progress
MeshHitsInProgress ==
    {stack[k].isect[1] : k \in {j \in 1..Len(stack) :
        stack[j].isect # None /\ stack[j].isect[1].obj.kind = "TriangleMesh"}}

\* C22: every hit of a triangle mesh that Scene::color_for hands to
\* Scene::color_at carries its location, normal and texture coordinate, and
\* no call ends in the panic of TriangleMesh::normal_at or
\* TriangleMesh::texture_coord
C22_MeshNeverAsked ==
    /\ ret # Panic
    /\ last.op # "panic"
    /\ \A isect \in MeshHitsInProgress : Precomputed(isect)

\* Scene::color_at has taken the point, the normal and the texture coordinate
\* of a hit of a mesh
C22_Witness ==
    /\ last.op = "resolved"
    /\ last.obj.kind = "TriangleMesh"
    /\ stack # <<>> /\ Top.isect # None /\ Precomputed(Top.isect[1])
    /\ Top.normal = Top.isect[1].normal[1]
    /\ Top.point = Top.isect[1].location[1]


(***************************************************************************)
(* Properties of the normals of a transformed mesh, under SpecMesh.        *)
(***************************************************************************)
\* equal up to the rounding of the last digit kept
Near(a, b) == Abs(a - b) <= 2

VNear(a, b) == \A i \in 1..3 : Near(a[i], b[i])

\* the old normal times the inverse transpose of the matrix, of length 1
WorldNormal(inv, normal) == Normalize(MatVec(Transpose(inv), normal))

\* the flat normal of triangle k is perpendicular to its two edge vectors
Perpendicular(m, k) ==
    /\ Near(Dot(m.triangle_normals[k], m.triangles[k].v0v1), 0)
    /\ Near(Dot(m.triangle_normals[k], m.triangles[k].v0v2), 0)

\* C23: after a successful transform every vertex normal is the old normal
\* times the inverse transpose of the matrix, renormalized to length 1, and
\* every flat normal is perpendicular to the two recomputed edge vectors of
\* its triangle
C23_NormalsAreWorldSpace ==
    (mres.calls > 0 /\ mres.ok) =>
        /\ \A k \in 1..Len(mesh.vertices) :
              VNear(mesh.vertices[k].normal,
                    WorldNormal(mesh.wto, mres.before.vertices[k].normal))
        /\ \A k \in 1..Len(mesh.triangles) : Perpendicular(mesh, k)

\* what the code does: the vertex normals are multiplied and left at the
\* length they come out with, the flat normals are kept as they were
C23_NormalsAsStored ==
    (mres.calls > 0 /\ mres.ok) =>
        /\ \A k \in 1..Len(mesh.vertices) :
              mesh.vertices[k].normal =
                  MatVec(Transpose(mesh.wto), mres.before.vertices[k].normal)
        /\ mesh.triangle_normals = mres.before.triangle_normals


(***************************************************************************)
(* Properties of TriangleMesh::intersect, under SpecIntersect.             *)
(***************************************************************************)
\* the triangles of the mesh the ray strikes
Struck(m, ray) == {i \in 1..Len(m.triangles) : TriangleHit(m, ray, i) # None}

\* the intersection isect is the hit h = <<d, <<u, v>>>> of triangle i
IsHitOf(isect, m, ray, i, h) ==
    LET tri == m.triangles[i]
        v0  == m.vertices[tri.v0 + 1]
        v1  == m.vertices[tri.v1 + 1]
        v2  == m.vertices[tri.v2 + 1]
    IN  /\ isect.distance = h[1]
        /\ isect.location = Some(PointAt(ray, h[1]))
        /\ isect.tex_coord =
              Some(TextureCoord(V2Blend(h[2][1], h[2][2], v0.texture_coord,
                                        v1.texture_coord, v2.texture_coord),
                                m.material.scale))
        /\ isect.normal =
              Some(IF m.shading_mode = "Flat" THEN m.triangle_normals[i]
                   ELSE V3Blend(h[2][1], h[2][2], v0.normal, v1.normal, v2.normal))

\* C24: TriangleMesh::intersect returns none when the slab test of the
\* bounding box misses the ray or no triangle is struck; otherwise it returns
\* the hit of least distance over all triangles, located at
\* ray.point_at(distance), with the blend of the three vertex texture
\* coordinates and the flat normal of the triangle (Flat) or the blend of its
\* three vertex normals (Smooth)
C24_NearestTriangleHit ==
    (probe.st = "returned" /\ probe.shape.kind = "TriangleMesh") =>
        LET m == probe.shape
            ray == probe.ray
        IN  IF BoundingBoxIntersect(m.bounding_box, ray) = None \/ Struck(m, ray) = {}
            THEN probe.result = None
            ELSE /\ probe.result # None
                 /\ \E i \in Struck(m, ray) :
                       /\ \A j \in Struck(m, ray) :
                             TriangleHit(m, ray, i)[1][1] <= TriangleHit(m, ray, j)[1][1]
                       /\ IsHitOf(probe.result[1], m, ray, i, TriangleHit(m, ray, i)[1])

\* a ray through two triangles at different distances, in Smooth mode
C24_Witness ==
    /\ probe.st = "returned" /\ probe.shape.kind = "TriangleMesh"
    /\ probe.shape.shading_mode = "Smooth"
    /\ probe.result # None
    /\ \E i, j \in Struck(probe.shape, probe.ray) :
          TriangleHit(probe.shape, probe.ray, i)[1][1]
              < TriangleHit(probe.shape, probe.ray, j)[1][1]

\* the slab test misses or no triangle is struck
C24_MissCase ==
    /\ probe.st = "returned" /\ probe.shape.kind = "TriangleMesh"
    /\ probe.result = None


(***************************************************************************)
(* Properties of pre_calc_traingle_intersect, under SpecTriangle.          *)
(***************************************************************************)
ProbeV0V1 == VSub(probe.points[2], probe.points[1])

ProbeV0V2 == VSub(probe.points[3], probe.points[1])

\* v0v1 . (direction x v0v2)
ProbeDet == Dot(ProbeV0V1, Cross(probe.ray.direction, ProbeV0V2))

\* p0 + u v0v1 + v v0v2
OnTriangle(u, v) ==
    VAdd(probe.points[1], VAdd(VScale(ProbeV0V1, u), VScale(ProbeV0V2, v)))

\* C25: pre_calc_traingle_intersect returns none when the determinant
\* v0v1 . (direction x v0v2) is below EPSILON, and a hit it returns has
\* u >= 0, v >= 0, u + v <= 1 and a distance d >= 0 with
\* origin + d direction = p0 + u v0v1 + v v0v2
C25_OneSidedBarycentric ==
    probe.st = "returned" =>
        /\ ProbeDet < EPSILON => probe.result = None
        /\ probe.result # None =>
              LET d == probe.result[1][1]
                  u == probe.result[1][2][1]
                  v == probe.result[1][2][2]
              IN  /\ u >= 0 /\ v >= 0 /\ u + v <= Q
                  /\ d >= 0
                  /\ VNear(PointAt(probe.ray, d), OnTriangle(u, v))

\* a hit strictly inside a triangle, at a distance above 0
C25_Witness ==
    /\ probe.st = "returned" /\ probe.result # None
    /\ probe.result[1][1] > 0
    /\ probe.result[1][2][1] > 0 /\ probe.result[1][2][2] > 0
    /\ probe.result[1][2][1] + probe.result[1][2][2] < Q

\* a ray that meets the plane of the triangle from behind
C25_BackFacingCase ==
    /\ probe.st = "returned" /\ ProbeDet <= -EPSILON /\ probe.result = None


(***************************************************************************)
(* Properties of the cached edge vectors, under SpecMesh.                  *)
(***************************************************************************)
\* the edge vectors of triangle k, from the positions of its vertices in m
EdgesNow(m, k) ==
    LET t == m.triangles[k]
    IN  << VSub(m.vertices[t.v1 + 1].point, m.vertices[t.v0 + 1].point),
           VSub(m.vertices[t.v2 + 1].point, m.vertices[t.v0 + 1].point) >>

\* C26: after the construction of a mesh and after any sequence of transforms
\* the cached edge vectors of every triangle are those of the current vertex
\* positions: v0v1 = position[v1] - position[v0], v0v2 = position[v2] -
\* position[v0]
C26_EdgesAreCurrent ==
    \A k \in 1..Len(mesh.triangles) : Edges(mesh)[k] = EdgesNow(mesh, k)

\* two successful transforms in a row, each of which changed the positions and
\* the edge vectors
C26_Witness ==
    /\ mres.calls >= 2 /\ mres.ok /\ mres.prev.ok
    /\ Positions(mesh) # Positions(mres.before)
    /\ Edges(mesh) # Edges(mres.before)
    /\ Edges(mres.before) # Edges(mres.prev.before)
    /\ \A k \in 1..Len(mesh.triangles) : Edges(mesh)[k] = EdgesNow(mesh, k)


(***************************************************************************)
(* Properties of From<GeoMesh> for TriangleMesh, under SpecConvert.        *)
(***************************************************************************)
\* the number of triangles of the faces before face i
TrianglesBefore(faces, i) == SumTo([f \in 1..Len(faces) |-> faces[f] - 2], i - 1)

\* triangle j (from 0) of face i of the description is triangle
\* TrianglesBefore + j + 1 of the mesh, with the normal of the face
FannedFrom(m, geo, normals, i, j) ==
    LET k == FaceStart(geo.faces, i)
        t == TrianglesBefore(geo.faces, i) + j + 1
    IN  /\ m.triangles[t].v0 = geo.vertex_index[k + 1]
        /\ m.triangles[t].v1 = geo.vertex_index[k + j + 2]
        /\ m.triangles[t].v2 = geo.vertex_index[k + j + 3]
        /\ m.triangle_normals[t] = normals[i]

\* C27: the conversion fans each face from its first vertex: a face a0 ..
\* a(n-1) gives the n - 2 triangles (a0, a(j+1), a(j+2)), in face order;
\* num_triangles, the number of triangles and the number of flat normals are
\* the sum of n - 2 over the faces, the flat normal of a triangle is the
\* normal of its face, and every index of a triangle is that of a vertex
C27_FanTriangulation ==
    (probe.st = "returned" /\ probe.result # Panic) =>
        LET m == probe.result[1]
            geo == probe.geo
            total == TrianglesBefore(geo.faces, Len(geo.faces) + 1)
        IN  /\ m.num_triangles = total
            /\ Len(m.triangles) = total
            /\ Len(m.triangle_normals) = total
            /\ \E normals \in {GeoMesh(geo).face_normals} :
                  \A i \in 1..Len(geo.faces) : \A j \in 0..(geo.faces[i] - 3) :
                      FannedFrom(m, geo, normals, i, j)
            /\ \A t \in 1..total :
                  /\ m.triangles[t].v0 < Len(m.vertices)
                  /\ m.triangles[t].v1 < Len(m.vertices)
                  /\ m.triangles[t].v2 < Len(m.vertices)

\* a mesh of a face of more than three vertices followed by another face
C27_Witness ==
    /\ probe.st = "returned" /\ probe.result # Panic
    /\ Len(probe.geo.faces) >= 2 /\ probe.geo.faces[1] > 3
    /\ probe.result[1].num_triangles = 3
    /\ probe.result[1].triangles[2].v0 = probe.geo.vertex_index[1]
    /\ probe.result[1].triangle_normals[3] # probe.result[1].triangle_normals[2]

\* a fourth index of a face beyond the vertices: the conversion panics
C27_PanicCase == probe.st = "returned" /\ probe.result = Panic


(***************************************************************************)
(* Properties of TextureCoord::scale_wrap, under SpecImage.                *)
(***************************************************************************)
\* C28: for an image of width W >= 1 and height H >= 1 and every finite
\* texture coordinate and scale, scale_wrap returns (x, y) with
\* 0 <= x <= W - 1 and 0 <= y <= H - 1, and the lookup of the pixel is not out
\* of bounds
C28_PixelInBounds ==
    probe.st = "returned" =>
        /\ 0 <= probe.result[1].xy[1] /\ probe.result[1].xy[1] <= probe.width - 1
        /\ 0 <= probe.result[1].xy[2] /\ probe.result[1].xy[2] <= probe.height - 1
        /\ probe.result[1].pixel # Panic

\* a coordinate below 0 whose remainder is brought back into the image, next
\* to one beyond the range of i32
C28_Witness ==
    /\ probe.st = "returned"
    /\ probe.coord.uv[1] < 0 /\ probe.coord.uv[1] # -Huge /\ probe.coord.scale > 0
    /\ probe.result[1].xy[1] > 0
    /\ probe.coord.uv[2] = Huge
    /\ probe.result[1].pixel # Panic

\* both coordinates below 0 with a negative scale, or beyond the range of i32
C28_SaturatedCase ==
    /\ probe.st = "returned"
    /\ probe.coord.uv[1] = -Huge /\ probe.coord.uv[2] = Huge
    /\ probe.coord.scale < 0


(***************************************************************************)
(* Properties of Camera::new, under SpecCamera.                            *)
(***************************************************************************)
\* of length 1, up to the rounding of the last digits kept
UnitLength(a) == Abs(Magnitude(a) - Q) <= 3

\* C29: for every origin and every point to look at other than the origin,
\* forward is the unit vector from the origin to the point, right is
\* J x forward, up is forward x right, and forward, right and up are mutually
\* perpendicular and of length 1
C29_Orthonormal ==
    probe.st = "returned" =>
        LET c == probe.result[1]
        IN  /\ c.forward = Normalize(VSub(probe.sight[2], probe.sight[1]))
            /\ c.right = Cross(VJ, c.forward)
            /\ c.up = Cross(c.forward, c.right)
            /\ Near(Dot(c.forward, c.right), 0)
            /\ Near(Dot(c.forward, c.up), 0)
            /\ Near(Dot(c.right, c.up), 0)
            /\ UnitLength(c.forward) /\ UnitLength(c.right) /\ UnitLength(c.up)

\* what the code does: the three vectors are mutually perpendicular, forward
\* is of length 1, right and up have the length of J x forward
C29_Perpendicular ==
    probe.st = "returned" =>
        LET c == probe.result[1]
        IN  /\ c.forward = Normalize(VSub(probe.sight[2], probe.sight[1]))
            /\ c.right = Cross(VJ, c.forward)
            /\ c.up = Cross(c.forward, c.right)
            /\ Near(Dot(c.forward, c.right), 0)
            /\ Near(Dot(c.forward, c.up), 0)
            /\ Near(Dot(c.right, c.up), 0)
            /\ UnitLength(c.forward)
            /\ Abs(Magnitude(c.up) - Magnitude(c.right)) <= 3

\* a camera that looks along a horizontal line has a basis of unit vectors;
\* the default camera has the axes +Z, +X and +Y
C29_HorizontalIsOrthonormal ==
    (probe.st = "returned" /\ probe.sight[1][2] = probe.sight[2][2]) =>
        LET c == probe.result[1]
        IN  /\ UnitLength(c.right) /\ UnitLength(c.up)
            /\ probe.sight = <<V3(0, 0, -20), V3(0, 0, 0)>> =>
                  c.forward = V3(0, 0, 1) /\ c.right = V3(1, 0, 0) /\ c.up = V3(0, 1, 0)


(***************************************************************************)
(* Properties of object_to_world and world_to_object, under SpecMesh.      *)
(***************************************************************************)
\* one or two calls of transform were made on the mesh, all successful
AllSuccessful == mres.calls \in 1..2 /\ mres.ok /\ mres.prev.ok

\* the product Mk . ... . M1 of the matrices of the calls
Composition ==
    IF mres.calls = 2 THEN MatMul(mres.matrix, mres.prev.matrix) ELSE mres.matrix

\* the mesh as it was constructed
Constructed == IF mres.calls = 2 THEN mres.prev.before ELSE mres.before

\* Transformable::transform_to_object of a position
TransformToObject(m, point) == MatVec(m.wto, point)

\* C30: after successful transforms with M1 .. Mk of a freshly built mesh,
\* object_to_world() is the product Mk . ... . M1, world_to_object() is its
\* inverse, and transform_to_object takes the position of every vertex back
\* to the position the mesh was constructed with
C30_ComposedObjectToWorld ==
    AllSuccessful =>
        /\ mesh.otw = Composition
        /\ Some(mesh.wto) = Inverse(Composition)
        /\ \A k \in 1..Len(mesh.vertices) :
              VNear(TransformToObject(mesh, mesh.vertices[k].point),
                    Constructed.vertices[k].point)

\* what the code does: the two matrices are those of the last successful call
C30_LastMatrixOnly ==
    (mres.calls >= 1 /\ mres.ok) =>
        /\ mesh.otw = mres.matrix
        /\ Some(mesh.wto) = Inverse(mres.matrix)


======================================================================
